---- MODULE Spec2Model ----
(***************************************************************************)
(* A model of duck, a monorepo script runner:                              *)
(*   - internal/resolver:  ResolveExecutionOrder (Kahn's algorithm)        *)
(*   - internal/executor:  ExecuteScript, ExecuteScriptOnProjects          *)
(*   - internal/cli:       the loop of RunScript                           *)
(* Three specifications share the module: SpecResolve, SpecExec, SpecPipe. *)
(***************************************************************************)
EXTENDS Integers, Sequences, FiniteSets, TLC

VARIABLES
    projects,        \* map[string]*config.AppProject: key -> [Dependencies, Scripts]
    \* ---- resolver.ResolveExecutionOrder
    rpc,             \* position inside ResolveExecutionOrder
    graph,           \* graph: dependency -> its dependents
    inDegree,        \* inDegree: key -> number of declared dependencies left
    resultDeps,      \* result.Dependencies
    queue,           \* the ready queue
    executionOrder,  \* result.ExecutionOrder
    rret,            \* what the call returned: [result, err]
    \* ---- executor.ExecuteScriptOnProjects and the loop of cli.RunScript
    mode,            \* "batch": ExecuteScriptOnProjects, "run": RunScript
    scripts,         \* projectConfig.Scripts: the names of the script catalog
    scriptName,      \* the script asked for
    selection,       \* the flags of "run": [all, project, namespace, tag, parallel]
    projectKeys,     \* projectKeys / targetProjects: the ordered keys
    idx,             \* the loop's position in projectKeys
    epc,             \* position of the caller: "start", "loop", "running", "done"
    ctxDone,         \* the context's Done channel is closed
    results,         \* the results obtained so far
    eret,            \* the error the call returned
    attempted,       \* the keys ExecuteScript was called with, in order
    spawned,         \* the keys a subprocess was started for, in order
    \* ---- executor.ExecuteScript from cmd.Start on: the process and its pipes
    program,         \* the writes the process has still to make, in its order
    pipe,            \* per stream, the bytes written and not yet read
    childExited,     \* the process has exited (its ends of the pipes are closed)
    exitStatus,      \* how it exited
    written,         \* per stream, every byte the process has written
    scanBuf,         \* per stream, the bytes bufio.Scanner holds of an unfinished line
    readerDone,      \* per stream, copyOutput has returned
    builder,         \* outputBuilder and errorBuilder
    ppc,             \* "draining" until ExecuteScript returns, then "returned"
    presult,         \* the result ExecuteScript returned
    \* ---- executor.ExecuteScript, lines 94-101: the environment of the process
    osEnviron,       \* os.Environ(): the inherited "key=value" entries
    scriptEnv,       \* script.Environment, a map[string]string
    projectEnv,      \* project.Config.Environment, a map[string]string
    cmdEnv,          \* cmd.Env
    childEnv,        \* the environment block the process is started with
    envpc,           \* "compose", "start", "started"
    \* ---- cli.syncDependenciesToConfig: the manifests of one project directory
    files,           \* per file name: [exists, writable, lines]
    discovered,      \* the dependencies argument
    syncRuns,        \* how many calls have returned
    syncErr,         \* what the last call returned
    original,        \* files before the first call
    afterFirst,      \* files after the first call
    \* ---- dependencyscanner.ScannerRegistry
    scanners,        \* sr.scanners, in registration order
    found,           \* the last FindScanner call: [path, scanner, err]
    scanned,         \* the last ScanProjects call: [paths, graph, err]
    \* ---- goscan.GoScanner and AnalyzeProjectDependencies on one project
    requires,        \* what the go.mod requires: [target, version, marker] entries
    goMod,           \* the lines of go.mod
    sourceImports,   \* the import paths of the project's Go files
    scanDeps,        \* what ScanProject returned
    analysis,        \* what AnalyzeProjectDependencies returned
    \* ---- scanner.Scanner on one workspace
    scanFs,          \* per project directory, its manifests
    scanConfig,      \* the ProjectConfig the Scanner was made with
    scanOut,         \* s.projects after ScanProjects, and the stores made
    resolveOut,      \* what the resolver's first loop returned on them
    \* ---- cli.ConfigFormat on duck.yaml
    duckYaml,        \* the lines of duck.yaml
    setFormats,      \* the formats set so far, in order
    beforeSet,       \* duck.yaml before the last call
    \* ---- executor.replaceVariables
    replCommand,     \* the text given to replaceVariables
    replacements,    \* the map from placeholder to value
    replPending,     \* the placeholders the range has not reached yet
    replResult,      \* the text so far
    \* ---- one call of executor.ExecuteScript
    xcall,           \* the project key and the script name of the call
    xpc,             \* where ExecuteScript is
    xctxDone,        \* ctx is cancelled
    shellProc,       \* the process of sh: none, running, exited
    childProc,       \* what sh started: none, holding (the pipes), detached, exited
    shellStatus,     \* how sh ended: none, ok, failed, killed
    errorBuilder,    \* the text copied from stderr
    xresult,         \* the result returned
    xerr             \* the error returned

resolverVars == <<rpc, graph, inDegree, resultDeps, queue, executionOrder, rret>>

execVars == <<mode, scripts, scriptName, selection, projectKeys, idx, epc, ctxDone,
              results, eret, attempted, spawned>>

pipeVars == <<program, pipe, childExited, exitStatus, written, scanBuf, readerDone,
              builder, ppc, presult>>

envVars == <<osEnviron, scriptEnv, projectEnv, cmdEnv, childEnv, envpc>>

syncVars == <<files, discovered, syncRuns, syncErr, original, afterFirst>>

registryVars == <<scanners, found, scanned>>

goVars == <<requires, goMod, sourceImports, scanDeps, analysis>>

scanVars == <<scanFs, scanConfig, scanOut, resolveOut>>

formatVars == <<duckYaml, setFormats, beforeSet>>

substVars == <<replCommand, replacements, replPending, replResult>>

scriptVars == <<xcall, xpc, xctxDone, shellProc, childProc, shellStatus, errorBuilder,
                xresult, xerr>>

vars == <<projects, resolverVars, execVars, pipeVars, envVars, syncVars, registryVars,
          goVars, scanVars, formatVars, substVars, scriptVars>>

\* what the steps of one component leave alone
notResolver == <<execVars, pipeVars, envVars, syncVars, registryVars, goVars, scanVars,
                 formatVars, substVars, scriptVars>>
notExec == <<projects, resolverVars, pipeVars, envVars, syncVars, registryVars, goVars,
             scanVars, formatVars, substVars, scriptVars>>
notPipe == <<projects, resolverVars, execVars, envVars, syncVars, registryVars, goVars,
             scanVars, formatVars, substVars, scriptVars>>
notEnv == <<projects, resolverVars, execVars, pipeVars, syncVars, registryVars, goVars,
            scanVars, formatVars, substVars, scriptVars>>
notSync == <<projects, resolverVars, execVars, pipeVars, envVars, registryVars, goVars,
             scanVars, formatVars, substVars, scriptVars>>
notRegistry == <<projects, resolverVars, execVars, pipeVars, envVars, syncVars, goVars,
                 scanVars, formatVars, substVars, scriptVars>>
notGo == <<projects, resolverVars, execVars, pipeVars, envVars, syncVars, registryVars,
           scanVars, formatVars, substVars, scriptVars>>
notScan == <<projects, resolverVars, execVars, pipeVars, envVars, syncVars,
             registryVars, goVars, formatVars, substVars, scriptVars>>
notFormat == <<projects, resolverVars, execVars, pipeVars, envVars, syncVars,
               registryVars, goVars, scanVars, substVars, scriptVars>>
notSubst == <<projects, resolverVars, execVars, pipeVars, envVars, syncVars,
              registryVars, goVars, scanVars, formatVars, scriptVars>>
notScript == <<projects, resolverVars, execVars, pipeVars, envVars, syncVars,
               registryVars, goVars, scanVars, formatVars, substVars>>

-----------------------------------------------------------------------------
(* Bounds *)

MaxDeclared == 4     \* dependency entries declared in a project map, in total
MaxBatch == 3        \* longest list of project keys handed to a batch
MaxWrites == 5       \* bytes a process writes before it exits
PipeCapacity == 1    \* bytes a pipe holds before a write blocks (scaled down)
MaxScanTokenSize == 2 \* bufio.MaxScanTokenSize, the longest line a Scanner takes (scaled down)

-----------------------------------------------------------------------------
(* Strings.  Project keys are Go strings; they are compared byte-wise.     *)

KeyUniverse == {"a", "ab", "b"}

KeyBytes(k) ==
    CASE k = "a"  -> <<97>>
      [] k = "ab" -> <<97, 98>>
      [] k = "b"  -> <<98>>

RECURSIVE BytesLess(_, _)
BytesLess(s, t) ==
    IF t = <<>> THEN FALSE
    ELSE IF s = <<>> THEN TRUE
    ELSE IF s[1] # t[1] THEN s[1] < t[1]
    ELSE BytesLess(Tail(s), Tail(t))

\* Go's  x < y  on strings
Less(x, y) == BytesLess(KeyBytes(x), KeyBytes(y))

\* the orders in which a range over a Go map with key set S may run
MapOrders(S) ==
    {f \in [1..Cardinality(S) -> S] : \A x \in S : \E i \in DOMAIN f : f[i] = x}

Range(s) == {s[i] : i \in DOMAIN s}

\* queue = append(queue[:i], append([]string{dependent}, queue[i:]...)...)
\* at the first i with dependent < queue[i], else append(queue, dependent)
InsertAppend(q, dependent) == Append(q, dependent)

InsertSorted(q, dependent) ==
    LET smaller == {i \in DOMAIN q : Less(dependent, q[i])}
    IN  IF smaller = {} THEN Append(q, dependent)
        ELSE LET i == CHOOSE j \in smaller : \A k \in smaller : j <= k
             IN  SubSeq(q, 1, i - 1) \o <<dependent>> \o SubSeq(q, i, Len(q))

\* sort.Strings
RECURSIVE SortStrings(_)
SortStrings(s) ==
    IF s = <<>> THEN <<>>
    ELSE LET rest == SortStrings(Tail(s))
             notAfter == {i \in DOMAIN rest : ~Less(rest[i], s[1])}
         IN  IF notAfter = {} THEN Append(rest, s[1])
             ELSE LET i == CHOOSE j \in notAfter : \A k \in notAfter : j <= k
                  IN  SubSeq(rest, 1, i - 1) \o <<s[1]>> \o SubSeq(rest, i, Len(rest))

-----------------------------------------------------------------------------
(* resolver.ResolveExecutionOrder *)

NoError == [kind |-> "none"]

MissingErrorSwapped(key, dep) == [kind |-> "missing", project |-> dep, dep |-> key]

\* fmt.Errorf("project %s depends on %s, but %s was not found", key, dep, dep)
MissingError(key, dep) == [kind |-> "missing", project |-> key, dep |-> dep]

\* fmt.Errorf("circular dependency detected")
CircularError == [kind |-> "circular"]

\* the (key, dep) pairs the two nested loops visit, in order
RECURSIVE DeclaredPairs(_, _)
DeclaredPairs(p, order) ==
    IF order = <<>> THEN <<>>
    ELSE LET key == order[1]
             deps == p[key].Dependencies
         IN  [i \in DOMAIN deps |-> <<key, deps[i]>>] \o DeclaredPairs(p, Tail(order))

\* the loop body over the pairs: stop at the first missing dependency,
\* else record the edge
RECURSIVE AddEdges(_, _, _)
AddEdges(p, pairs, st) ==
    IF pairs = <<>> THEN st
    ELSE LET key == pairs[1][1]
             dep == pairs[1][2]
         IN  IF dep \notin DOMAIN p
             THEN [st EXCEPT !.err = MissingError(key, dep)]
             ELSE AddEdges(p, Tail(pairs),
                      [st EXCEPT !.graph[dep] = Append(@, key),
                                 !.inDegree[key] = @ + 1,
                                 !.deps[key] = Append(@, dep)])

BuildGraph(p, order) ==
    AddEdges(p, DeclaredPairs(p, order),
             [err |-> NoError,
              graph |-> [k \in DOMAIN p |-> <<>>],
              inDegree |-> [k \in DOMAIN p |-> 0],
              deps |-> [k \in DOMAIN p |-> <<>>]])

SeedQueueAll(deg, order) == SortStrings(order)

\* queue of the keys whose degree is 0, collected in map order, then sorted
SeedQueue(deg, order) ==
    SortStrings(SelectSeq(order, LAMBDA k : deg[k] = 0))

\* the pass over the dependents with each dependent released once, however
\* often it is listed
RECURSIVE ReleaseDistinct(_, _)
ReleaseDistinct(dependents, st) ==
    IF dependents = <<>> THEN st
    ELSE LET d == dependents[1]
             deg == st.inDegree[d] - 1
             st1 == [st EXCEPT !.inDegree[d] = deg]
         IN  IF d \in Range(Tail(dependents))
             THEN ReleaseDistinct(Tail(dependents), st)
             ELSE ReleaseDistinct(Tail(dependents),
                      IF deg = 0
                      THEN [st1 EXCEPT !.queue = InsertSorted(@, d)]
                      ELSE st1)

\* one pass of "for _, dependent := range dependents"
RECURSIVE ReleaseDependents(_, _)
ReleaseDependents(dependents, st) ==
    IF dependents = <<>> THEN st
    ELSE LET d == dependents[1]
             deg == st.inDegree[d] - 1
             st1 == [st EXCEPT !.inDegree[d] = deg]
         IN  ReleaseDependents(Tail(dependents),
                 IF deg = 0
                 THEN [st1 EXCEPT !.queue = InsertSorted(@, d)]
                 ELSE st1)

ReturnAlways(order, deps, n) ==
    [result |-> [ExecutionOrder |-> order, Dependencies |-> deps], err |-> NoError]

\* if len(result.ExecutionOrder) != len(r.projects) { return nil, ... }
ReturnResult(order, deps, n) ==
    IF Len(order) # n
    THEN [result |-> "nil", err |-> CircularError]
    ELSE [result |-> [ExecutionOrder |-> order, Dependencies |-> deps], err |-> NoError]

NotReturned == [result |-> "nil", err |-> [kind |-> "pending"]]

\* lines 26-49: allocate, then visit every declared dependency
ResolveBuild ==
    /\ rpc = "build"
    /\ \E order \in MapOrders(DOMAIN projects) :
         LET st == BuildGraph(projects, order)
         IN  IF st.err.kind # "none"
             THEN /\ rpc' = "done"
                  /\ rret' = [result |-> "nil", err |-> st.err]
                  /\ UNCHANGED <<graph, inDegree, resultDeps>>
             ELSE /\ rpc' = "seed"
                  /\ graph' = st.graph
                  /\ inDegree' = st.inDegree
                  /\ resultDeps' = st.deps
                  /\ rret' = rret
    /\ UNCHANGED <<projects, queue, executionOrder>>
    /\ UNCHANGED notResolver

\* lines 51-59
ResolveSeed ==
    /\ rpc = "seed"
    /\ \E order \in MapOrders(DOMAIN inDegree) :
         queue' = SeedQueue(inDegree, order)
    /\ rpc' = "loop"
    /\ UNCHANGED <<projects, graph, inDegree, resultDeps, executionOrder, rret>>
    /\ UNCHANGED notResolver

\* lines 61-86: one iteration of "for len(queue) > 0"
ResolveStep ==
    /\ rpc = "loop"
    /\ queue # <<>>
    /\ LET current == queue[1]
           dependents == SortStrings(graph[current])
           st == ReleaseDependents(dependents,
                     [inDegree |-> inDegree, queue |-> Tail(queue)])
       IN  /\ executionOrder' = Append(executionOrder, current)
           /\ graph' = [graph EXCEPT ![current] = dependents]
           /\ inDegree' = st.inDegree
           /\ queue' = st.queue
    /\ UNCHANGED <<projects, rpc, resultDeps, rret>>
    /\ UNCHANGED notResolver

\* lines 88-92
ResolveReturn ==
    /\ rpc = "loop"
    /\ queue = <<>>
    /\ rret' = ReturnResult(executionOrder, resultDeps, Cardinality(DOMAIN projects))
    /\ rpc' = "done"
    /\ UNCHANGED <<projects, graph, inDegree, resultDeps, queue, executionOrder>>
    /\ UNCHANGED notResolver

DepLists(budget) == UNION {[1..n -> KeyUniverse] : n \in 0..budget}

ScriptNames == {"build", "test"}

\* AppConfig.Scripts, a map[string]bool: per name "unset" (no entry),
\* "true" or "false"
NoScripts == [n \in ScriptNames |-> "unset"]

\* the project maps over the keys D that declare at most budget entries
RECURSIVE ProjectMaps(_, _)
ProjectMaps(D, budget) ==
    IF D = {} THEN {<<>>}
    ELSE LET k == CHOOSE x \in D : TRUE
         IN  UNION {{(k :> [Dependencies |-> l, Scripts |-> NoScripts]) @@ m :
                        m \in ProjectMaps(D \ {k}, budget - Len(l))} :
                    l \in DepLists(budget)}

ResolverInputs == UNION {ProjectMaps(D, MaxDeclared) : D \in SUBSET KeyUniverse}

ResolverIdle ==
    /\ rpc = "build"
    /\ graph = <<>>
    /\ inDegree = <<>>
    /\ resultDeps = <<>>
    /\ queue = <<>>
    /\ executionOrder = <<>>
    /\ rret = NotReturned

\* no flag given
NoSelection ==
    [all |-> FALSE, project |-> <<>>, namespace |-> "", tag |-> <<>>,
     parallel |-> FALSE]

ExecIdle ==
    /\ mode = "batch"
    /\ scripts = {}
    /\ scriptName = ""
    /\ selection = NoSelection
    /\ projectKeys = <<>>
    /\ idx = 1
    /\ epc = "done"
    /\ ctxDone = FALSE
    /\ results = <<>>
    /\ eret = NoError
    /\ attempted = <<>>
    /\ spawned = <<>>

Streams == {"stdout", "stderr"}

PipeIdle ==
    /\ program = <<>>
    /\ pipe = [s \in Streams |-> <<>>]
    /\ childExited = TRUE
    /\ exitStatus = "ok"
    /\ written = [s \in Streams |-> <<>>]
    /\ scanBuf = [s \in Streams |-> <<>>]
    /\ readerDone = [s \in Streams |-> TRUE]
    /\ builder = [s \in Streams |-> <<>>]
    /\ ppc = "idle"
    /\ presult = <<>>

EnvIdle ==
    /\ osEnviron = <<>>
    /\ scriptEnv = <<>>
    /\ projectEnv = <<>>
    /\ cmdEnv = <<>>
    /\ childEnv = <<>>
    /\ envpc = "started"

SyncIdle ==
    /\ files = <<>>
    /\ discovered = <<>>
    /\ syncRuns = 0
    /\ syncErr = NoError
    /\ original = <<>>
    /\ afterFirst = <<>>

\* no call made yet
NoCall == [kind |-> "no call"]

RegistryIdle ==
    /\ scanners = <<>>
    /\ found = NoCall
    /\ scanned = NoCall

GoIdle ==
    /\ requires = <<>>
    /\ goMod = <<>>
    /\ sourceImports = {}
    /\ scanDeps = NoCall
    /\ analysis = NoCall

ScanIdle ==
    /\ scanFs = <<>>
    /\ scanConfig = <<>>
    /\ scanOut = NoCall
    /\ resolveOut = NoCall

FormatIdle ==
    /\ duckYaml = <<>>
    /\ setFormats = <<>>
    /\ beforeSet = <<>>

SubstIdle ==
    /\ replCommand = <<>>
    /\ replacements = <<>>
    /\ replPending = {}
    /\ replResult = <<>>

ScriptIdle ==
    /\ xcall = <<>>
    /\ xpc = "idle"
    /\ xctxDone = FALSE
    /\ shellProc = "none"
    /\ childProc = "none"
    /\ shellStatus = "none"
    /\ errorBuilder = ""
    /\ xresult = NoCall
    /\ xerr = NoError

InitResolve ==
    /\ projects \in ResolverInputs
    /\ ResolverIdle
    /\ ExecIdle
    /\ PipeIdle
    /\ EnvIdle
    /\ SyncIdle
    /\ RegistryIdle
    /\ GoIdle
    /\ ScanIdle
    /\ FormatIdle
    /\ ScriptIdle
    /\ SubstIdle

NextResolve ==
    \/ ResolveBuild
    \/ ResolveSeed
    \/ ResolveStep
    \/ ResolveReturn

SpecResolve == InitResolve /\ [][NextResolve]_vars

-----------------------------------------------------------------------------
(* executor.ExecuteScript *)

\* Error: "script disabled for this project"
DisabledError == "script disabled for this project"

\* fmt.Sprintf("failed to start command: %v", err), and the two pipe errors
StartError == "failed to start command"

\* err.Error() of cmd.Wait: *exec.ExitError
ExitError(status) == IF status = "killed" THEN "signal: killed" ELSE "exit status 1"

\* fmt.Errorf("project %s not found", projectKey)
ProjectNotFound(projectKey) ==
    [kind |-> "not found", what |-> "project", name |-> projectKey]

\* fmt.Errorf("script %s not found", scriptName)
ScriptNotFound(name) == [kind |-> "not found", what |-> "script", name |-> name]

\* ctx.Err()
Canceled == [kind |-> "context canceled"]

\* enabled, exists := project.Config.Scripts[scriptName]; exists && !enabled
DisabledIfNotTrue(project, name) == project.Scripts[name] # "true"

IsDisabled(project, name) ==
    LET exists == project.Scripts[name] # "unset"
        enabled == project.Scripts[name] = "true"
    IN  exists /\ ~enabled

NewResult(projectKey, name, success, error) ==
    [ProjectKey |-> projectKey, Script |-> name, Success |-> success, Error |-> error]

DisabledFirst(p, catalog, projectKey, name, startOk) ==
    IF projectKey \notin DOMAIN p
    THEN [kind |-> "error", err |-> ProjectNotFound(projectKey)]
    ELSE IF IsDisabled(p[projectKey], name)
    THEN [kind |-> "result",
          result |-> NewResult(projectKey, name, FALSE, DisabledError)]
    ELSE IF name \notin catalog
    THEN [kind |-> "error", err |-> ScriptNotFound(name)]
    ELSE IF ~startOk
    THEN [kind |-> "result",
          result |-> NewResult(projectKey, name, FALSE, StartError)]
    ELSE [kind |-> "spawn"]

\* ExecuteScript up to cmd.Start (lines 43-119): an error, a result
\* returned without a running process, or a started process
ExecuteScriptEntry(p, catalog, projectKey, name, startOk) ==
    IF projectKey \notin DOMAIN p
    THEN [kind |-> "error", err |-> ProjectNotFound(projectKey)]
    ELSE IF name \notin catalog
    THEN [kind |-> "error", err |-> ScriptNotFound(name)]
    ELSE IF IsDisabled(p[projectKey], name)
    THEN [kind |-> "result",
          result |-> NewResult(projectKey, name, FALSE, DisabledError)]
    ELSE IF ~startOk
    THEN [kind |-> "result",
          result |-> NewResult(projectKey, name, FALSE, StartError)]
    ELSE [kind |-> "spawn"]

\* lines 138-154 with the stderr buffer left out of a successful result
WaitResultErrorOnlyOnFailure(projectKey, name, status, stderr) ==
    LET failed == status # "ok"
    IN  NewResult(projectKey, name, ~failed,
                  IF ~failed THEN ""
                  ELSE IF stderr = "" THEN ExitError(status) ELSE stderr)

\* lines 138-154 with a result that is successful whenever stderr is empty
WaitResultByStderr(projectKey, name, status, stderr) ==
    NewResult(projectKey, name, stderr = "",
              IF stderr = "" /\ status # "ok" THEN ExitError(status) ELSE stderr)

\* ExecuteScript after the process has exited (lines 138-154)
WaitResult(projectKey, name, status, stderr) ==
    LET failed == status # "ok"
        error1 == IF ~failed THEN ""
                  ELSE IF stderr = "" THEN ExitError(status) ELSE stderr
        error2 == IF error1 = "" THEN stderr ELSE error1
    IN  NewResult(projectKey, name, ~failed, error2)

StderrTexts == {"", "text on stderr"}

\* how a started process may end; a process is killed only through the
\* context it was started with
ExitStatuses == {"ok", "failed"} \cup (IF ctxDone THEN {"killed"} ELSE {})

-----------------------------------------------------------------------------
(* executor.ExecuteScriptOnProjects *)

\* the select on ctx.Done() at the top of the loop body
CancelIgnored(done) == FALSE

CancelObserved(done) == done

NeverBreak(result) == FALSE

\* if !result.Success { break }
BreakOnFailure(result) == ~result.Success

\* lines 161-177, with ExecuteScript up to cmd.Start
BatchIterate ==
    /\ mode = "batch"
    /\ epc = "loop"
    /\ idx <= Len(projectKeys)
    /\ IF CancelObserved(ctxDone)
       THEN /\ epc' = "done"
            /\ eret' = Canceled
            /\ UNCHANGED <<results, attempted, spawned>>
       ELSE \E startOk \in BOOLEAN :
              LET key == projectKeys[idx]
                  r == ExecuteScriptEntry(projects, scripts, key, scriptName, startOk)
              IN  /\ attempted' = Append(attempted, key)
                  /\ CASE r.kind = "error" ->
                            /\ epc' = "done"
                            /\ eret' = r.err
                            /\ UNCHANGED <<results, spawned>>
                       [] r.kind = "result" ->
                            /\ results' = Append(results, r.result)
                            /\ epc' = IF BreakOnFailure(r.result) THEN "done" ELSE "loop"
                            /\ UNCHANGED <<eret, spawned>>
                       [] r.kind = "spawn" ->
                            /\ spawned' = Append(spawned, key)
                            /\ epc' = "running"
                            /\ UNCHANGED <<results, eret>>
    /\ idx' = IF epc' = "loop" THEN idx + 1 ELSE idx
    /\ UNCHANGED <<mode, scripts, scriptName, selection, projectKeys, ctxDone>>
    /\ UNCHANGED notExec

\* the end of the range loop: return results, nil
BatchReturn ==
    /\ mode = "batch"
    /\ epc = "loop"
    /\ idx > Len(projectKeys)
    /\ epc' = "done"
    /\ UNCHANGED <<mode, scripts, scriptName, selection, projectKeys, idx, ctxDone, results,
                   eret, attempted, spawned>>
    /\ UNCHANGED notExec

\* the caller closes the context; RunScript uses context.Background()
Cancel ==
    /\ mode = "batch"
    /\ epc \in {"loop", "running"}
    /\ ~ctxDone
    /\ ctxDone' = TRUE
    /\ UNCHANGED <<mode, scripts, scriptName, selection, projectKeys, idx, epc, results, eret,
                   attempted, spawned>>
    /\ UNCHANGED notExec

\* fmt.Errorf("script failed on %s", project.Config.Name)
ScriptFailed(key) == [kind |-> "script failed", project |-> key]

\* fmt.Errorf("execution failed: %w", err)
ExecutionFailed(err) == [kind |-> "execution failed", cause |-> err]

\* if !result.Success { return fmt.Errorf("script failed on ...") }
RunFails(result) == ~result.Success

\* the started process exits; ExecuteScript returns its result (lines
\* 136-154) and the caller's loop body goes on (executor.go 172-177,
\* commands.go 172-198)
ProcessExit ==
    /\ epc = "running"
    /\ \E status \in ExitStatuses, stderr \in StderrTexts :
         LET result == WaitResult(projectKeys[idx], scriptName, status, stderr)
         IN  /\ results' = Append(results, result)
             /\ IF mode = "run"
                THEN IF RunFails(result)
                     THEN /\ idx' = idx
                          /\ epc' = "done"
                          /\ eret' = ScriptFailed(projectKeys[idx])
                     ELSE /\ idx' = idx + 1
                          /\ epc' = "loop"
                          /\ eret' = eret
                ELSE IF BreakOnFailure(result)
                     THEN /\ idx' = idx
                          /\ epc' = "done"
                          /\ eret' = eret
                     ELSE /\ idx' = idx + 1
                          /\ epc' = "loop"
                          /\ eret' = eret
    /\ UNCHANGED <<mode, scripts, scriptName, selection, projectKeys, ctxDone, attempted, spawned>>
    /\ UNCHANGED notExec

-----------------------------------------------------------------------------
(* cli.RunScript *)

\* the whole of ResolveExecutionOrder as one value: lines 61-86 repeated
\* until the queue is empty
RECURSIVE KahnLoop(_)
KahnLoop(st) ==
    IF st.queue = <<>> THEN st
    ELSE LET current == st.queue[1]
             dependents == SortStrings(st.graph[current])
             rel == ReleaseDependents(dependents,
                        [inDegree |-> st.inDegree, queue |-> Tail(st.queue)])
         IN  KahnLoop([graph |-> [st.graph EXCEPT ![current] = dependents],
                       inDegree |-> rel.inDegree,
                       queue |-> rel.queue,
                       order |-> Append(st.order, current)])

ResolveExecutionOrder(p, order) ==
    LET built == BuildGraph(p, order)
    IN  IF built.err.kind # "none"
        THEN [result |-> "nil", err |-> built.err]
        ELSE LET fin == KahnLoop([graph |-> built.graph,
                                  inDegree |-> built.inDegree,
                                  queue |-> SeedQueue(built.inDegree, order),
                                  order |-> <<>>])
             IN  ReturnResult(fin.order, built.deps, Cardinality(DOMAIN p))

\* utils.go: the identifier is a key of the map; else the first project,
\* in the map's iteration order, that has it as its name
ResolveProjectKey(projectIdentifier, p, order) ==
    IF projectIdentifier \in DOMAIN p
    THEN [key |-> projectIdentifier, exists |-> TRUE]
    ELSE LET named == SelectSeq(order, LAMBDA k : p[k].Name = projectIdentifier)
         IN  IF named = <<>> THEN [key |-> "", exists |-> FALSE]
             ELSE [key |-> named[1], exists |-> TRUE]

\* utils.go: the keys whose project passes the namespace filter (when one is
\* given) and carries every required tag
FilterProjects(p, opts) ==
    {k \in DOMAIN p :
        /\ opts.Namespace # "" => p[k].Namespace = opts.Namespace
        /\ \A requiredTag \in Range(opts.Tags) : requiredTag \in Range(p[k].Tags)}

\* fmt.Errorf("failed to resolve dependencies: %w", err)
ResolveFailed(err) == [kind |-> "failed to resolve dependencies", err |-> err]

\* fmt.Errorf("must specify --all, --project, --namespace, or --tag")
MustSpecify == [kind |-> "must specify a selection"]

\* "for _, name := range projectNames": the keys appended before the first
\* name that resolves to nothing
RECURSIVE ResolveNames(_, _, _)
ResolveNames(names, p, order) ==
    IF names = <<>> THEN [targets |-> <<>>, err |-> NoError]
    ELSE LET r == ResolveProjectKey(names[1], p, order)
         IN  IF ~r.exists
             THEN [targets |-> <<>>, err |-> ProjectNotFound(names[1])]
             ELSE LET rest == ResolveNames(Tail(names), p, order)
                  IN  [targets |-> <<r.key>> \o rest.targets, err |-> rest.err]

\* lines 103-136: the else-if chain over the four flags; order is the
\* iteration order of the ranges over the project map
SelectTargets(sel, p, order) ==
    IF sel.all
    THEN LET resolution == ResolveExecutionOrder(p, order)
         IN  IF resolution.err.kind # "none"
             THEN [targets |-> <<>>, err |-> ResolveFailed(resolution.err)]
             ELSE [targets |-> resolution.result.ExecutionOrder, err |-> NoError]
    ELSE IF Len(sel.project) > 0 THEN ResolveNames(sel.project, p, order)
    ELSE IF sel.namespace # ""
    THEN [targets |-> SortStrings(SelectSeq(order,
                          LAMBDA k : p[k].Namespace = sel.namespace)),
          err |-> NoError]
    ELSE IF Len(sel.tag) > 0
    THEN [targets |-> SortStrings(SelectSeq(order,
                          LAMBDA k : k \in FilterProjects(p,
                                       [Namespace |-> "", Tags |-> sel.tag]))),
          err |-> NoError]
    ELSE [targets |-> <<>>, err |-> MustSpecify]

\* lines 97-141: script lookup, selection, the empty check
RunStart ==
    /\ mode = "run"
    /\ epc = "start"
    /\ IF scriptName \notin scripts
       THEN /\ epc' = "done"
            /\ eret' = ScriptNotFound(scriptName)
            /\ UNCHANGED projectKeys
       ELSE \E order \in MapOrders(DOMAIN projects) :
              LET chosen == SelectTargets(selection, projects, order)
              IN  IF chosen.err.kind # "none"
                  THEN /\ epc' = "done"
                       /\ eret' = chosen.err
                       /\ UNCHANGED projectKeys
                  ELSE /\ projectKeys' = chosen.targets
                       /\ epc' = IF Len(chosen.targets) = 0 THEN "done" ELSE "loop"
                       /\ eret' = eret
    /\ UNCHANGED <<mode, scripts, scriptName, selection, idx, ctxDone, results,
                   attempted, spawned>>
    /\ UNCHANGED notExec

\* lines 159-198, with ExecuteScript up to cmd.Start
RunIterate ==
    /\ mode = "run"
    /\ epc = "loop"
    /\ idx <= Len(projectKeys)
    /\ \E startOk \in BOOLEAN :
         LET key == projectKeys[idx]
             r == ExecuteScriptEntry(projects, scripts, key, scriptName, startOk)
         IN  /\ attempted' = Append(attempted, key)
             /\ CASE r.kind = "error" ->
                       /\ epc' = "done"
                       /\ eret' = ExecutionFailed(r.err)
                       /\ UNCHANGED <<results, spawned>>
                  [] r.kind = "result" ->
                       /\ results' = Append(results, r.result)
                       /\ epc' = IF RunFails(r.result) THEN "done" ELSE "loop"
                       /\ eret' = IF RunFails(r.result) THEN ScriptFailed(key) ELSE eret
                       /\ UNCHANGED spawned
                  [] r.kind = "spawn" ->
                       /\ spawned' = Append(spawned, key)
                       /\ epc' = "running"
                       /\ UNCHANGED <<results, eret>>
    /\ idx' = IF epc' = "loop" THEN idx + 1 ELSE idx
    /\ UNCHANGED <<mode, scripts, scriptName, selection, projectKeys, ctxDone>>
    /\ UNCHANGED notExec

\* line 201: every project succeeded
RunReturn ==
    /\ mode = "run"
    /\ epc = "loop"
    /\ idx > Len(projectKeys)
    /\ epc' = "done"
    /\ UNCHANGED <<mode, scripts, scriptName, selection, projectKeys, idx, ctxDone, results,
                   eret, attempted, spawned>>
    /\ UNCHANGED notExec

\* the script catalog of the workspace
Catalog == {"build"}

ScriptSettings ==
    {NoScripts,
     [NoScripts EXCEPT !["build"] = "true"],
     [NoScripts EXCEPT !["build"] = "false"],
     [NoScripts EXCEPT !["test"] = "false"]}

ExecutorProjects ==
    UNION {[D -> [Dependencies : {<<>>}, Scripts : ScriptSettings]] :
             D \in SUBSET KeyUniverse}

KeyLists(S) == UNION {[1..n -> S] : n \in 0..MaxBatch}

InitExec ==
    /\ projects \in ExecutorProjects
    /\ ResolverIdle
    /\ mode \in {"batch", "run"}
    /\ scripts = Catalog
    /\ scriptName \in ScriptNames
    /\ IF mode = "run"
       THEN /\ selection \in {[NoSelection EXCEPT !.project = names] :
                                 names \in KeyLists(DOMAIN projects)}
            /\ projectKeys = <<>>
       ELSE /\ selection = NoSelection
            /\ projectKeys \in KeyLists(KeyUniverse)
    /\ idx = 1
    /\ epc = IF mode = "run" THEN "start" ELSE "loop"
    /\ ctxDone = FALSE
    /\ results = <<>>
    /\ eret = NoError
    /\ attempted = <<>>
    /\ spawned = <<>>
    /\ PipeIdle
    /\ EnvIdle
    /\ SyncIdle
    /\ RegistryIdle
    /\ GoIdle
    /\ ScanIdle
    /\ FormatIdle
    /\ ScriptIdle
    /\ SubstIdle

NextExec ==
    \/ BatchIterate
    \/ BatchReturn
    \/ Cancel
    \/ ProcessExit
    \/ RunStart
    \/ RunIterate
    \/ RunReturn

SpecExec == InitExec /\ [][NextExec]_vars

-----------------------------------------------------------------------------
(* cli.RunScript over scanned projects: every selection flag *)

MaxRunDeclared == 1  \* dependency entries declared among the projects of a run
Namespaces == {"core", "shared"}

TagLists == {<<>>, <<"go">>}

\* AppConfig.Name: two projects of different directories share a name
NameOf(k) == IF k = "b" THEN "db" ELSE "svc"

RECURSIVE RunProjectMaps(_, _)
RunProjectMaps(D, budget) ==
    IF D = {} THEN {<<>>}
    ELSE LET k == CHOOSE x \in D : TRUE
         IN  UNION {{(k :> [Name |-> NameOf(k), Namespace |-> ns, Tags |-> tags,
                            Dependencies |-> l, Scripts |-> NoScripts]) @@ m :
                        ns \in Namespaces, tags \in TagLists,
                        m \in RunProjectMaps(D \ {k}, budget - Len(l))} :
                    l \in DepLists(budget)}

RunProjects == UNION {RunProjectMaps(D, MaxRunDeclared) : D \in SUBSET KeyUniverse}

\* what --project is given: keys, names, and a value that is neither
ProjectFlags ==
    {<<"a">>, <<"b">>, <<"a", "b">>, <<"b", "a">>, <<"ab", "a">>, <<"svc">>,
     <<"db", "svc">>, <<"none">>, <<"a", "none">>}

\* the selecting flags of a command line
TargetFlags ==
    {[NoSelection EXCEPT !.all = TRUE]}
    \cup {[NoSelection EXCEPT !.project = names] : names \in ProjectFlags}
    \cup {[NoSelection EXCEPT !.namespace = "core", !.tag = tags] : tags \in TagLists}
    \cup {[NoSelection EXCEPT !.tag = <<"go">>]}
    \cup {NoSelection}

\* with and without --parallel
Selections ==
    {[sel EXCEPT !.parallel = par] : sel \in TargetFlags, par \in BOOLEAN}

InitRun ==
    /\ projects \in RunProjects
    /\ ResolverIdle
    /\ mode = "run"
    /\ scripts = Catalog
    /\ scriptName \in ScriptNames
    /\ selection \in Selections
    /\ projectKeys = <<>>
    /\ idx = 1
    /\ epc = "start"
    /\ ctxDone = FALSE
    /\ results = <<>>
    /\ eret = NoError
    /\ attempted = <<>>
    /\ spawned = <<>>
    /\ PipeIdle
    /\ EnvIdle
    /\ SyncIdle
    /\ RegistryIdle
    /\ GoIdle
    /\ ScanIdle
    /\ FormatIdle
    /\ ScriptIdle
    /\ SubstIdle

NextRun ==
    \/ RunStart
    \/ RunIterate
    \/ ProcessExit
    \/ RunReturn

SpecRun == InitRun /\ [][NextRun]_vars

-----------------------------------------------------------------------------
(* executor.ExecuteScript from cmd.Start on (lines 116-154) and copyOutput:
   the process writes to its two pipes, one goroutine per pipe copies the
   lines to a builder, and the call returns after both goroutines and the
   process have ended *)

Bytes == {"x", "CR", "LF"}

\* bufio.ScanLines: dropCR
DropCR(data) ==
    IF data # <<>> /\ data[Len(data)] = "CR" THEN SubSeq(data, 1, Len(data) - 1)
    ELSE data

\* fmt.Fprintln(writer, scanner.Text())
Fprintln(b, text) == b \o text \o <<"LF">>

\* the process makes its next write; the write blocks while the pipe is full
ChildWrite ==
    /\ ppc = "draining"
    /\ program # <<>>
    /\ LET w == Head(program)
       IN  /\ Len(pipe[w.stream]) < PipeCapacity
           /\ pipe' = [pipe EXCEPT ![w.stream] = Append(@, w.byte)]
           /\ written' = [written EXCEPT ![w.stream] = Append(@, w.byte)]
    /\ program' = Tail(program)
    /\ UNCHANGED <<childExited, exitStatus, scanBuf, readerDone, builder, ppc, presult>>
    /\ UNCHANGED notPipe

\* the process has written everything and exits
ChildExit ==
    /\ ppc = "draining"
    /\ program = <<>>
    /\ ~childExited
    /\ childExited' = TRUE
    /\ exitStatus' \in {"ok", "failed"}
    /\ UNCHANGED <<program, pipe, written, scanBuf, readerDone, builder, ppc, presult>>
    /\ UNCHANGED notPipe

\* a line too long for the Scanner: Scan returns false with ErrTooLong
TokenTooLong(buf) == Len(buf) >= MaxScanTokenSize

\* copyOutput, one turn of "for scanner.Scan()", with the read it makes
CopyOutput(s) ==
    /\ ppc = "draining"
    /\ ~readerDone[s]
    /\ IF TokenTooLong(scanBuf[s])
       THEN \* the buffer is full and holds no newline: the loop ends
            /\ readerDone' = [readerDone EXCEPT ![s] = TRUE]
            /\ UNCHANGED <<pipe, scanBuf, builder>>
       ELSE IF pipe[s] # <<>>
       THEN LET b == Head(pipe[s])
            IN  /\ pipe' = [pipe EXCEPT ![s] = Tail(@)]
                /\ IF b = "LF"
                   THEN /\ builder' = [builder EXCEPT ![s] = Fprintln(@, DropCR(scanBuf[s]))]
                        /\ scanBuf' = [scanBuf EXCEPT ![s] = <<>>]
                   ELSE /\ scanBuf' = [scanBuf EXCEPT ![s] = Append(@, b)]
                        /\ builder' = builder
                /\ readerDone' = readerDone
       ELSE \* end of file: a last line without newline is a token too
            /\ childExited
            /\ builder' = IF scanBuf[s] = <<>> THEN builder
                          ELSE [builder EXCEPT ![s] = Fprintln(@, DropCR(scanBuf[s]))]
            /\ scanBuf' = [scanBuf EXCEPT ![s] = <<>>]
            /\ readerDone' = [readerDone EXCEPT ![s] = TRUE]
            /\ pipe' = pipe
    /\ UNCHANGED <<program, childExited, exitStatus, written, ppc, presult>>
    /\ UNCHANGED notPipe

\* lines 139-152: Success, Output and Error of the result
ResultOf(status, out, err) ==
    LET failed == status # "ok"
        error1 == IF ~failed THEN <<>>
                  ELSE IF err = <<>> THEN <<ExitError(status)>> ELSE err
    IN  [Success |-> ~failed,
         Output |-> out,
         Error |-> IF error1 = <<>> THEN err ELSE error1]

\* wg.Wait(), cmd.Wait() and the return (lines 136-154)
WaitAndReturn ==
    /\ ppc = "draining"
    /\ \A s \in Streams : readerDone[s]
    /\ childExited
    /\ presult' = ResultOf(exitStatus, builder["stdout"], builder["stderr"])
    /\ ppc' = "returned"
    /\ UNCHANGED <<program, pipe, childExited, exitStatus, written, scanBuf,
                   readerDone, builder>>
    /\ UNCHANGED notPipe

Writes == [stream : Streams, byte : Bytes]

Programs == UNION {[1..n -> Writes] : n \in 0..MaxWrites}

InitPipe ==
    /\ projects = <<>>
    /\ ResolverIdle
    /\ ExecIdle
    /\ program \in Programs
    /\ pipe = [s \in Streams |-> <<>>]
    /\ childExited = FALSE
    /\ exitStatus = "running"
    /\ written = [s \in Streams |-> <<>>]
    /\ scanBuf = [s \in Streams |-> <<>>]
    /\ readerDone = [s \in Streams |-> FALSE]
    /\ builder = [s \in Streams |-> <<>>]
    /\ ppc = "draining"
    /\ presult = <<>>
    /\ EnvIdle
    /\ SyncIdle
    /\ RegistryIdle
    /\ GoIdle
    /\ ScanIdle
    /\ FormatIdle
    /\ ScriptIdle
    /\ SubstIdle

NextPipe ==
    \/ ChildWrite
    \/ ChildExit
    \/ \E s \in Streams : CopyOutput(s)
    \/ WaitAndReturn

SpecPipe == InitPipe /\ [][NextPipe]_vars

-----------------------------------------------------------------------------
(* executor.ExecuteScript, lines 94-101: the environment of the process.
   An entry is the text "key=value", a sequence of characters; a variable
   name holds no "=", a value may. *)

EnvNames == {<<"K">>, <<"L">>}

EnvValues == {<<>>, <<"v">>, <<"=", "w">>}

\* the maps from some names to values
EnvMaps == UNION {[D -> EnvValues] : D \in SUBSET EnvNames}

\* fmt.Sprintf("%s=%s", key, value)
Sprintf(key, value) == key \o <<"=">> \o value

\* the entries appended by "for key, value := range m", in the order given
EntriesOf(m, order) == [i \in DOMAIN order |-> Sprintf(order[i], m[order[i]])]

\* lines 94-101 with the project's entries appended before the script's
ComposeEnvProjectFirst(environ, script, scriptOrder, project, projectOrder) ==
    environ \o EntriesOf(project, projectOrder) \o EntriesOf(script, scriptOrder)

\* lines 94-101: cmd.Env = os.Environ(), then the script's entries, then
\* the project's
ComposeEnv(environ, script, scriptOrder, project, projectOrder) ==
    environ \o EntriesOf(script, scriptOrder) \o EntriesOf(project, projectOrder)

\* strings.Index(kv, "=")
IndexOfEquals(kv) ==
    LET at == {i \in DOMAIN kv : kv[i] = "="}
    IN  IF at = {} THEN 0 ELSE CHOOSE i \in at : \A j \in at : i <= j

EntryKey(kv) == SubSeq(kv, 1, IndexOfEquals(kv) - 1)

EntryValue(kv) == SubSeq(kv, IndexOfEquals(kv) + 1, Len(kv))

\* os/exec dedupEnv, applied by cmd.Start: of the entries with one key only
\* the last is kept
DedupEnv(env) ==
    SelectSeq([i \in DOMAIN env |-> <<i, env[i]>>],
              LAMBDA e : \A j \in DOMAIN env :
                            j > e[1] => EntryKey(env[j]) # EntryKey(e[2]))

\* what getenv(name) gives in the process: the value of the first entry
\* of its environment block with that name
Getenv(block, name) ==
    LET at == {i \in DOMAIN block : EntryKey(block[i][2]) = name}
    IN  IF at = {} THEN [set |-> FALSE, value |-> <<>>]
        ELSE [set |-> TRUE,
              value |-> EntryValue(block[CHOOSE i \in at : \A j \in at : i <= j][2])]

ComposeEnvironment ==
    /\ envpc = "compose"
    /\ \E scriptOrder \in MapOrders(DOMAIN scriptEnv),
          projectOrder \in MapOrders(DOMAIN projectEnv) :
         cmdEnv' = ComposeEnv(osEnviron, scriptEnv, scriptOrder,
                              projectEnv, projectOrder)
    /\ envpc' = "start"
    /\ UNCHANGED <<osEnviron, scriptEnv, projectEnv, childEnv>>
    /\ UNCHANGED notEnv

\* cmd.Start
StartProcess ==
    /\ envpc = "start"
    /\ childEnv' = DedupEnv(cmdEnv)
    /\ envpc' = "started"
    /\ UNCHANGED <<osEnviron, scriptEnv, projectEnv, cmdEnv>>
    /\ UNCHANGED notEnv

InitEnv ==
    /\ projects = <<>>
    /\ ResolverIdle
    /\ ExecIdle
    /\ PipeIdle
    /\ \E inherited \in EnvMaps :
         \E order \in MapOrders(DOMAIN inherited) :
            osEnviron = EntriesOf(inherited, order)
    /\ scriptEnv \in EnvMaps
    /\ projectEnv \in EnvMaps
    /\ cmdEnv = <<>>
    /\ childEnv = <<>>
    /\ envpc = "compose"
    /\ SyncIdle
    /\ RegistryIdle
    /\ GoIdle
    /\ ScanIdle
    /\ FormatIdle
    /\ ScriptIdle
    /\ SubstIdle

NextEnv ==
    \/ ComposeEnvironment
    \/ StartProcess

SpecEnv == InitEnv /\ [][NextEnv]_vars

-----------------------------------------------------------------------------
(* cli.syncDependenciesToConfig and the two manifest writers.
   A file is its lines (strings.Split(data, "\n")); a line, and every
   string cut out of one, is a sequence of tokens: single characters, and
   the words of the manifests kept whole. *)

Q == "\""
SQ == "'"
BS == "\\"
SP == " "
TAB == "\t"

\* the byte a token starts with; no word is a prefix of another, so the
\* order of the first bytes (with "name" before "null") is the order of
\* the texts
TokenByte(t) ==
    CASE t = "\n" -> 10
      [] t = SP -> 32
      [] t = Q -> 34
      [] t = "#" -> 35
      [] t = SQ -> 39
      [] t = "," -> 44
      [] t = "-" -> 45
      [] t = ":" -> 58
      [] t = "[" -> 91
      [] t = BS -> 92
      [] t = "]" -> 93
      [] t = "a" -> 97
      [] t = "b" -> 98
      [] t = "c" -> 99
      [] t = "dependencies:" -> 100
      [] t = "implicitDependencies" -> 105
      [] t = "name" -> 110
      [] t = "null" -> 111
      [] t = "tags" -> 116
      [] t = "web" -> 119
      [] t = "{" -> 123
      [] t = "}" -> 125

TextBytes(s) == [i \in DOMAIN s |-> TokenByte(s[i])]

\* Go's  x < y  on the texts
TextLess(x, y) == BytesLess(TextBytes(x), TextBytes(y))

\* the keys of a map[string]bool in the order sort.Strings gives them
RECURSIVE SortedTexts(_)
SortedTexts(S) ==
    IF S = {} THEN <<>>
    ELSE LET least == CHOOSE x \in S : \A y \in S \ {x} : TextLess(x, y)
         IN  <<least>> \o SortedTexts(S \ {least})

RECURSIVE TrimLeft(_, _)
TrimLeft(s, cutset) ==
    IF s # <<>> /\ Head(s) \in cutset THEN TrimLeft(Tail(s), cutset) ELSE s

RECURSIVE TrimRight(_, _)
TrimRight(s, cutset) ==
    IF s # <<>> /\ s[Len(s)] \in cutset
    THEN TrimRight(SubSeq(s, 1, Len(s) - 1), cutset)
    ELSE s

\* strings.Trim
Trim(s, cutset) == TrimRight(TrimLeft(s, cutset), cutset)

\* strings.TrimSpace
TrimSpace(s) == Trim(s, {SP, TAB})

\* strings.HasPrefix
HasPrefix(s, prefix) ==
    Len(prefix) <= Len(s) /\ SubSeq(s, 1, Len(prefix)) = prefix

\* strings.Contains
Contains(s, sub) ==
    \E i \in 1..(Len(s) - Len(sub) + 1) : SubSeq(s, i, i + Len(sub) - 1) = sub

\* ---- updateAppYamlDependencies

\* first pass, from line i on: the entries of the dependencies section
RECURSIVE YamlExisting(_, _, _, _)
YamlExisting(lines, i, inDependencies, st) ==
    IF i > Len(lines) THEN st
    ELSE LET trimmed == TrimSpace(lines[i])
         IN  IF HasPrefix(trimmed, <<"dependencies:">>)
             THEN YamlExisting(lines, i + 1, TRUE, [st EXCEPT !.found = TRUE])
             ELSE IF ~inDependencies
             THEN YamlExisting(lines, i + 1, FALSE, st)
             ELSE IF HasPrefix(trimmed, <<"-">>)
             THEN LET dep == Trim(TrimSpace(Tail(trimmed)), {Q, SQ})
                  IN  YamlExisting(lines, i + 1, TRUE,
                          [st EXCEPT !.existingDeps = @ \cup {dep}])
             ELSE IF trimmed # <<>> /\ ~HasPrefix(trimmed, <<"#">>)
             THEN st
             ELSE YamlExisting(lines, i + 1, TRUE, st)

\* fmt.Sprintf("%s  - \"%s\"", indentLevel, dep)
YamlItem(indentLevel, dep) == indentLevel \o <<SP, SP, "-", SP, Q>> \o dep \o <<Q>>

YamlItems(indentLevel, mergedDeps) ==
    [k \in DOMAIN mergedDeps |-> YamlItem(indentLevel, mergedDeps[k])]

\* "Skip old dependency entries": the index of the last line skipped from
\* the dependencies line at i
RECURSIVE SkipOldEntries(_, _)
SkipOldEntries(lines, i) ==
    IF i + 1 > Len(lines) THEN i
    ELSE LET trimmed == TrimSpace(lines[i + 1])
         IN  IF \/ HasPrefix(trimmed, <<"-">>)
                \/ /\ trimmed = <<>>
                   /\ i + 2 <= Len(lines)
                   /\ HasPrefix(TrimSpace(lines[i + 2]), <<"-">>)
             THEN SkipOldEntries(lines, i + 1)
             ELSE i

\* second pass, from line i on
RECURSIVE YamlRebuild(_, _, _)
YamlRebuild(lines, i, mergedDeps) ==
    IF i > Len(lines) THEN <<>>
    ELSE LET line == lines[i]
         IN  IF HasPrefix(TrimSpace(line), <<"dependencies:">>)
             THEN LET indentLevel ==
                          SubSeq(line, 1, Len(line) - Len(TrimLeft(line, {SP, TAB})))
                  IN  <<line>> \o YamlItems(indentLevel, mergedDeps)
                        \o YamlRebuild(lines, SkipOldEntries(lines, i) + 1, mergedDeps)
             ELSE <<line>> \o YamlRebuild(lines, i + 1, mergedDeps)

\* "Merge" and "Convert to sorted slice"
MergeDeps(existingDeps, dependencies) ==
    SortedTexts(existingDeps \cup Range(dependencies))

\* the lines written to app.yaml
UpdateAppYaml(lines, dependencies) ==
    LET first == YamlExisting(lines, 1, FALSE, [found |-> FALSE, existingDeps |-> {}])
        mergedDeps == MergeDeps(first.existingDeps, dependencies)
        result == YamlRebuild(lines, 1, mergedDeps)
    IN  IF ~first.found /\ Len(mergedDeps) > 0
        THEN result \o <<(<<"dependencies:">>)>> \o YamlItems(<<>>, mergedDeps)
        ELSE result

\* ---- updateProjectJsonDependencies

\* "extract existing dependencies (even from malformed JSON)", from line i on
RECURSIVE JsonExisting(_, _, _, _)
JsonExisting(lines, i, inDeps, existingDeps) ==
    IF i > Len(lines) THEN existingDeps
    ELSE LET trimmed == TrimSpace(lines[i])
             quotes == {k \in DOMAIN trimmed : trimmed[k] = Q}
             start == CHOOSE k \in quotes : \A m \in quotes : k <= m
             end == CHOOSE k \in quotes : \A m \in quotes : m <= k
             dep == SubSeq(trimmed, start + 1, end - 1)
         IN  IF Contains(trimmed, <<Q, "implicitDependencies", Q>>)
             THEN JsonExisting(lines, i + 1, TRUE, existingDeps)
             ELSE IF ~inDeps
             THEN JsonExisting(lines, i + 1, FALSE, existingDeps)
             ELSE IF Contains(trimmed, <<"]">>)
             THEN existingDeps
             ELSE IF /\ quotes # {}
                     /\ start < end
                     /\ dep # <<>>
                     /\ dep # <<"implicitDependencies">>
             THEN JsonExisting(lines, i + 1, TRUE, existingDeps \cup {dep})
             ELSE JsonExisting(lines, i + 1, TRUE, existingDeps)

\* the three textual repairs tried when the file does not parse
AddCommaAfterBrace(lines) ==
    [i \in DOMAIN lines |->
        IF /\ i < Len(lines)
           /\ lines[i] # <<>>
           /\ lines[i][Len(lines[i])] = "}"
           /\ \/ HasPrefix(lines[i + 1], <<SP, SP, Q>>)
              \/ HasPrefix(lines[i + 1], <<SP, Q>>)
        THEN Append(lines[i], ",")
        ELSE lines[i]]

DropCommaBeforeBrace(lines) ==
    [i \in DOMAIN lines |->
        IF /\ i < Len(lines)
           /\ Len(lines[i]) >= 2
           /\ SubSeq(lines[i], Len(lines[i]) - 1, Len(lines[i])) = <<"]", ",">>
           /\ HasPrefix(lines[i + 1], <<"}">>)
        THEN SubSeq(lines[i], 1, Len(lines[i]) - 1)
        ELSE lines[i]]

FixCommonErrors(lines) == DropCommaBeforeBrace(AddCommaAfterBrace(lines))

\* encoding/json.  A value is [t, v]: a string with its characters, an
\* array with its elements, an object with its members sorted by key, null.
NL == "\n"

JsonNull == [t |-> "null", v |-> <<>>]

JsonString(text) == [t |-> "str", v |-> text]

JsonArray(elements) == [t |-> "arr", v |-> elements]

JsonObject(members) == [t |-> "obj", v |-> members]

ParseFailed == [ok |-> FALSE, val |-> JsonNull, next |-> 0]

Parsed(val, next) == [ok |-> TRUE, val |-> val, next |-> next]

\* the text of a file as one sequence of tokens
RECURSIVE Flatten(_)
Flatten(lines) ==
    IF lines = <<>> THEN <<>>
    ELSE IF Len(lines) = 1 THEN lines[1]
    ELSE lines[1] \o <<NL>> \o Flatten(Tail(lines))

At(toks, i) == IF i \in DOMAIN toks THEN toks[i] ELSE "EOF"

RECURSIVE SkipSpace(_, _)
SkipSpace(toks, i) ==
    IF At(toks, i) \in {SP, NL} THEN SkipSpace(toks, i + 1) ELSE i

\* m[key] = val on a map kept as its members in key order
PutMember(members, key, val) ==
    LET others == SelectSeq(members, LAMBDA m : m.key # key)
        before == SelectSeq(others, LAMBDA m : TextLess(m.key, key))
        after == SelectSeq(others, LAMBDA m : TextLess(key, m.key))
    IN  before \o <<[key |-> key, val |-> val]>> \o after

\* the characters of a string literal, from the token after its opening quote
RECURSIVE ParseString(_, _, _)
ParseString(toks, i, text) ==
    LET tok == At(toks, i)
    IN  IF tok = Q THEN Parsed(JsonString(text), i + 1)
        ELSE IF tok = BS
        THEN IF At(toks, i + 1) \in {Q, BS}
             THEN ParseString(toks, i + 2, Append(text, toks[i + 1]))
             ELSE ParseFailed
        ELSE IF tok \in {"EOF", NL} THEN ParseFailed
        ELSE ParseString(toks, i + 1, Append(text, tok))

\* a value worked out once and handed on under a name
With(value, Then(_)) == CHOOSE result \in {Then(v) : v \in {value}} : TRUE

RECURSIVE ParseValue(_, _)
RECURSIVE ParseElements(_, _, _)
RECURSIVE ParseMembers(_, _, _)

ParseValue(toks, from) ==
    With(SkipSpace(toks, from), LAMBDA i :
        IF At(toks, i) = Q THEN ParseString(toks, i + 1, <<>>)
        ELSE IF At(toks, i) = "null" THEN Parsed(JsonNull, i + 1)
        ELSE IF At(toks, i) = "["
        THEN With(SkipSpace(toks, i + 1), LAMBDA j :
                 IF At(toks, j) = "]" THEN Parsed(JsonArray(<<>>), j + 1)
                 ELSE ParseElements(toks, j, <<>>))
        ELSE IF At(toks, i) = "{"
        THEN With(SkipSpace(toks, i + 1), LAMBDA j :
                 IF At(toks, j) = "}" THEN Parsed(JsonObject(<<>>), j + 1)
                 ELSE ParseMembers(toks, j, <<>>))
        ELSE ParseFailed)

ParseElements(toks, i, elements) ==
    With(ParseValue(toks, i), LAMBDA element :
        IF ~element.ok THEN ParseFailed
        ELSE With(SkipSpace(toks, element.next), LAMBDA j :
                 IF At(toks, j) = ","
                 THEN ParseElements(toks, j + 1, Append(elements, element.val))
                 ELSE IF At(toks, j) = "]"
                 THEN Parsed(JsonArray(Append(elements, element.val)), j + 1)
                 ELSE ParseFailed))

\* the value of a member after its key, from the colon on
ParseMemberValue(toks, key) ==
    With(SkipSpace(toks, key.next), LAMBDA colon :
        IF key.ok /\ At(toks, colon) = ":" THEN ParseValue(toks, colon + 1)
        ELSE ParseFailed)

ParseMembers(toks, from, members) ==
    With(SkipSpace(toks, from), LAMBDA i :
    With(IF At(toks, i) = Q THEN ParseString(toks, i + 1, <<>>) ELSE ParseFailed,
         LAMBDA key :
    With(ParseMemberValue(toks, key), LAMBDA val :
        IF ~val.ok THEN ParseFailed
        ELSE With(SkipSpace(toks, val.next), LAMBDA j :
                 IF At(toks, j) = ","
                 THEN ParseMembers(toks, j + 1,
                                   PutMember(members, key.val.v, val.val))
                 ELSE IF At(toks, j) = "}"
                 THEN Parsed(JsonObject(PutMember(members, key.val.v, val.val)), j + 1)
                 ELSE ParseFailed))))

\* json.Unmarshal(data, &jsonData) with jsonData a map[string]interface{}
Unmarshal(lines) ==
    With(Flatten(lines), LAMBDA toks :
    With(ParseValue(toks, 1), LAMBDA top :
        IF top.ok /\ top.val.t = "obj" /\ SkipSpace(toks, top.next) > Len(toks)
        THEN [ok |-> TRUE, jsonData |-> top.val.v]
        ELSE [ok |-> FALSE, jsonData |-> <<>>]))

RECURSIVE Escape(_)
Escape(text) ==
    IF text = <<>> THEN <<>>
    ELSE (IF Head(text) \in {Q, BS} THEN <<BS, Head(text)>> ELSE <<Head(text)>>)
            \o Escape(Tail(text))

Quoted(text) == <<Q>> \o Escape(text) \o <<Q>>

RECURSIVE Indent(_)
Indent(depth) == IF depth = 0 THEN <<>> ELSE <<SP, SP>> \o Indent(depth - 1)

WithComma(ls) == [ls EXCEPT ![Len(ls)] = Append(@, ",")]

WithPrefix(prefix, ls) == [ls EXCEPT ![1] = prefix \o @]

\* json.MarshalIndent(val, "", "  "): the lines of a value at a depth; the
\* first line comes without its indentation
RECURSIVE MarshalIndent(_, _)
RECURSIVE MarshalParts(_, _, _)

\* the members or elements from the k-th on, each on its own lines
MarshalParts(val, k, depth) ==
    IF k > Len(val.v) THEN <<>>
    ELSE LET part == val.v[k]
             ls == IF val.t = "obj"
                   THEN WithPrefix(Indent(depth) \o Quoted(part.key) \o <<":", SP>>,
                                   MarshalIndent(part.val, depth))
                   ELSE WithPrefix(Indent(depth), MarshalIndent(part, depth))
         IN  (IF k < Len(val.v) THEN WithComma(ls) ELSE ls)
                \o MarshalParts(val, k + 1, depth)

MarshalIndent(val, depth) ==
    IF val.t = "str" THEN <<Quoted(val.v)>>
    ELSE IF val.t = "null" THEN <<(<<"null">>)>>
    ELSE LET open == IF val.t = "obj" THEN "{" ELSE "["
             close == IF val.t = "obj" THEN "}" ELSE "]"
         IN  IF val.v = <<>> THEN <<(<<open, close>>)>>
             ELSE <<(<<open>>)>> \o MarshalParts(val, 1, depth + 1)
                    \o <<Indent(depth) \o <<close>>>>

\* the outcome of updateProjectJsonDependencies: an error, or the lines written
UpdateProjectJson(lines, dependencies) ==
    With(MergeDeps(JsonExisting(lines, 1, FALSE, {}), dependencies), LAMBDA mergedDeps :
    With(Unmarshal(lines), LAMBDA asIs :
    With(IF asIs.ok THEN asIs ELSE Unmarshal(FixCommonErrors(lines)), LAMBDA parsed :
        IF ~parsed.ok THEN [ok |-> FALSE, lines |-> lines]
        ELSE [ok |-> TRUE,
              lines |->
                Append(MarshalIndent(
                           JsonObject(PutMember(parsed.jsonData,
                               <<"implicitDependencies">>,
                               JsonArray([k \in DOMAIN mergedDeps |->
                                             JsonString(mergedDeps[k])]))),
                           0),
                       <<>>)])))

\* ---- syncDependenciesToConfig

FileNames == {"app.yaml", "project.json"}

AbsentFile == [exists |-> FALSE, writable |-> FALSE, lines |-> <<>>]

\* the error of a call: the files whose update failed, in the order tried
SyncErrors(failed) == [kind |-> "sync errors", failed |-> failed]

\* fmt.Errorf("no app.yaml or project.json found")
NoManifestFound == [kind |-> "no app.yaml or project.json found"]

\* one update: os.WriteFile fails on a file that cannot be written and
\* leaves it as it was
WriteFile(file, outcome) ==
    IF outcome.ok /\ file.writable
    THEN [ok |-> TRUE, file |-> [file EXCEPT !.lines = outcome.lines]]
    ELSE [ok |-> FALSE, file |-> file]

\* the call returning at the first update that fails
SyncStoppingAtFirstError(fs, dependencies) ==
    LET hasAppYaml == fs["app.yaml"].exists
        hasProjectJson == fs["project.json"].exists
        yaml == WriteFile(fs["app.yaml"],
                    [ok |-> TRUE,
                     lines |-> UpdateAppYaml(fs["app.yaml"].lines, dependencies)])
        json == WriteFile(fs["project.json"],
                    UpdateProjectJson(fs["project.json"].lines, dependencies))
    IN  IF hasAppYaml /\ ~yaml.ok
        THEN [files |-> fs, err |-> SyncErrors(<<"app.yaml">>)]
        ELSE [files |-> [n \in FileNames |->
                            IF n = "app.yaml" /\ hasAppYaml THEN yaml.file
                            ELSE IF n = "project.json" /\ hasProjectJson THEN json.file
                            ELSE fs[n]],
              err |-> IF hasProjectJson /\ ~json.ok THEN SyncErrors(<<"project.json">>)
                      ELSE IF ~hasAppYaml /\ ~hasProjectJson THEN NoManifestFound
                      ELSE NoError]

\* lines 624-667
SyncOutcome(fs, dependencies) ==
    LET hasAppYaml == fs["app.yaml"].exists
        hasProjectJson == fs["project.json"].exists
        yaml == WriteFile(fs["app.yaml"],
                    [ok |-> TRUE,
                     lines |-> UpdateAppYaml(fs["app.yaml"].lines, dependencies)])
        json == WriteFile(fs["project.json"],
                    UpdateProjectJson(fs["project.json"].lines, dependencies))
        errors == (IF hasAppYaml /\ ~yaml.ok THEN <<"app.yaml">> ELSE <<>>)
                    \o (IF hasProjectJson /\ ~json.ok THEN <<"project.json">> ELSE <<>>)
    IN  [files |-> [n \in FileNames |->
                       IF n = "app.yaml" /\ hasAppYaml THEN yaml.file
                       ELSE IF n = "project.json" /\ hasProjectJson THEN json.file
                       ELSE fs[n]],
         err |-> IF Len(errors) > 0 THEN SyncErrors(errors)
                 ELSE IF ~hasAppYaml /\ ~hasProjectJson THEN NoManifestFound
                 ELSE NoError]

MaxSyncRuns == 2     \* calls of syncDependenciesToConfig in a row, same arguments

SyncDependenciesToConfig ==
    /\ syncRuns < MaxSyncRuns
    /\ LET out == SyncOutcome(files, discovered)
       IN  /\ files' = out.files
           /\ syncErr' = out.err
           /\ afterFirst' = IF syncRuns = 0 THEN out.files ELSE afterFirst
    /\ syncRuns' = syncRuns + 1
    /\ UNCHANGED <<discovered, original>>
    /\ UNCHANGED notSync

\* ---- the manifests a project directory may hold

DepA == <<"a">>
DepB == <<"b">>
DepC == <<"c">>

\* the dependency lists a manifest declares before the call
ExistingLists == {<<>>, <<DepA>>, <<DepB, DepA>>, <<DepA, DepC>>}

\* the dependencies argument: project keys, never empty (line 543)
DiscoveredLists == {<<DepC>>, <<DepA>>, <<DepC, DepA>>, <<DepB, DepB>>}

YamlEntry(dep, quote) ==
    <<SP, SP, "-", SP>> \o (IF quote THEN <<Q>> \o dep \o <<Q>> ELSE dep)

\* a block list; between two entries nothing, a blank line or a comment
RECURSIVE YamlBlock(_, _, _)
YamlBlock(entries, between, quote) ==
    IF entries = <<>> THEN <<>>
    ELSE <<YamlEntry(entries[1], quote)>>
            \o (IF Len(entries) = 1 THEN <<>>
                ELSE (CASE between = "nothing" -> <<>>
                        [] between = "blank" -> <<(<<>>)>>
                        [] between = "comment" -> <<(<<SP, SP, "#", SP, "web">>)>>)
                     \o YamlBlock(Tail(entries), between, quote))

RECURSIVE CommaSeparated(_)
CommaSeparated(entries) ==
    IF entries = <<>> THEN <<>>
    ELSE IF Len(entries) = 1 THEN entries[1]
    ELSE entries[1] \o <<",", SP>> \o CommaSeparated(Tail(entries))

YamlInline(entries) == <<"dependencies:", SP, "[">> \o CommaSeparated(entries) \o <<"]">>

YamlSections ==
    {<<>>}
    \cup {<<(<<"dependencies:">>)>> \o YamlBlock(entries, between, quote) :
            entries \in ExistingLists,
            between \in {"nothing", "blank", "comment"},
            quote \in BOOLEAN}
    \cup {<<YamlInline(entries)>> : entries \in ExistingLists}

YamlTails == {<<(<<>>)>>, <<(<<"tags", ":", SP, "[", "web", "]">>), <<>>>>}

YamlDocs ==
    {<<(<<"name", ":", SP, "web">>)>> \o section \o tail :
        section \in YamlSections, tail \in YamlTails}

JsonEntries(entries) == [k \in DOMAIN entries |-> Quoted(entries[k])]

\* the implicitDependencies member: on one line, or one entry a line
JsonDepsMember(entries, inline) ==
    IF inline \/ entries = <<>>
    THEN <<(<<SP, SP, Q, "implicitDependencies", Q, ":", SP, "[">>
              \o CommaSeparated(JsonEntries(entries)) \o <<"]">>)>>
    ELSE <<(<<SP, SP, Q, "implicitDependencies", Q, ":", SP, "[">>)>>
            \o [k \in DOMAIN entries |->
                   <<SP, SP, SP, SP>> \o Quoted(entries[k])
                      \o (IF k < Len(entries) THEN <<",">> ELSE <<>>)]
            \o <<(<<SP, SP, "]">>)>>

JsonNameMember == <<(<<SP, SP, Q, "name", Q, ":", SP, Q, "web", Q>>)>>

JsonTagsMember == <<(<<SP, SP, Q, "tags", Q, ":", SP, "[", Q, "web", Q, "]">>)>>

\* the member lists of a project.json
JsonMemberLists ==
    LET deps == {JsonDepsMember(entries, inline) :
                    entries \in ExistingLists, inline \in BOOLEAN}
    IN  {<<JsonNameMember>>, <<JsonNameMember, JsonTagsMember>>}
        \cup UNION {{<<d, JsonNameMember>>, <<JsonNameMember, d>>,
                     <<JsonNameMember, d, JsonTagsMember>>} : d \in deps}

RECURSIVE JsonBody(_, _)
JsonBody(members, trailingComma) ==
    IF members = <<>> THEN <<>>
    ELSE (IF Len(members) > 1 \/ trailingComma
          THEN WithComma(members[1]) ELSE members[1])
            \o JsonBody(Tail(members), trailingComma)

\* a well-formed file; one with a comma before the closing brace; one that
\* is cut before the closing brace
JsonDocs ==
    UNION {{<<(<<"{">>)>> \o JsonBody(members, FALSE) \o <<(<<"}">>), <<>>>>,
            <<(<<"{">>)>> \o JsonBody(members, TRUE) \o <<(<<"}">>), <<>>>>,
            <<(<<"{">>)>> \o JsonBody(members, FALSE) \o <<(<<>>)>>} :
           members \in JsonMemberLists}

PresentFiles(docs) == [exists : {TRUE}, writable : BOOLEAN, lines : docs]

\* a directory holding both manifests
BothYaml ==
    {<<(<<"name", ":", SP, "web">>), <<"dependencies:">>, YamlEntry(DepA, TRUE), <<>>>>}

BothJson ==
    {<<(<<"{">>)>> \o JsonBody(<<JsonNameMember, JsonDepsMember(<<DepA>>, FALSE)>>, FALSE)
        \o <<(<<"}">>), <<>>>>,
     <<(<<"{">>)>> \o JsonBody(<<JsonNameMember>>, FALSE) \o <<(<<>>)>>}

Directories ==
    {[n \in FileNames |-> IF n = "app.yaml" THEN y ELSE AbsentFile] :
        y \in PresentFiles(YamlDocs)}
    \cup {[n \in FileNames |-> IF n = "project.json" THEN j ELSE AbsentFile] :
            j \in PresentFiles(JsonDocs)}
    \cup {[n \in FileNames |-> IF n = "app.yaml" THEN y ELSE j] :
            y \in PresentFiles(BothYaml), j \in PresentFiles(BothJson)}
    \cup {[n \in FileNames |-> AbsentFile]}

InitSync ==
    /\ projects = <<>>
    /\ ResolverIdle
    /\ ExecIdle
    /\ PipeIdle
    /\ EnvIdle
    /\ files \in Directories
    /\ discovered \in DiscoveredLists
    /\ syncRuns = 0
    /\ syncErr = NoError
    /\ original = files
    /\ afterFirst = files
    /\ RegistryIdle
    /\ GoIdle
    /\ ScanIdle
    /\ FormatIdle
    /\ ScriptIdle
    /\ SubstIdle

NextSync == SyncDependenciesToConfig

SpecSync == InitSync /\ [][NextSync]_vars

\* ---- what a manifest declares, as its loader reads it

Unquote(text) ==
    IF Len(text) >= 2 /\ text[1] \in {Q, SQ} /\ text[Len(text)] = text[1]
    THEN SubSeq(text, 2, Len(text) - 1)
    ELSE text

\* the entries of a block sequence from line i on: comments and blank
\* lines are skipped, the first other line ends it
RECURSIVE YamlSequence(_, _)
YamlSequence(lines, i) ==
    IF i > Len(lines) THEN <<>>
    ELSE LET trimmed == TrimSpace(lines[i])
         IN  IF trimmed = <<>> \/ HasPrefix(trimmed, <<"#">>)
             THEN YamlSequence(lines, i + 1)
             ELSE IF HasPrefix(trimmed, <<"-">>)
             THEN <<Unquote(TrimSpace(Tail(trimmed)))>> \o YamlSequence(lines, i + 1)
             ELSE <<>>

\* the entries of a flow sequence, given the text between its brackets
RECURSIVE YamlFlow(_, _)
YamlFlow(text, entry) ==
    IF text = <<>> THEN (IF TrimSpace(entry) = <<>> THEN <<>> ELSE <<Unquote(TrimSpace(entry))>>)
    ELSE IF Head(text) = ","
    THEN <<Unquote(TrimSpace(entry))>> \o YamlFlow(Tail(text), <<>>)
    ELSE YamlFlow(Tail(text), Append(entry, Head(text)))

\* AppConfig.Dependencies as yaml.Unmarshal gives it; a sequence under a
\* key that already has a value is not YAML
DeclaredYaml(lines) ==
    LET at == {i \in DOMAIN lines : HasPrefix(lines[i], <<"dependencies:">>)}
        i == CHOOSE k \in at : \A m \in at : k <= m
        value == TrimSpace(Tail(lines[i]))
        below == YamlSequence(lines, i + 1)
    IN  IF at = {} THEN [ok |-> TRUE, deps |-> <<>>]
        ELSE IF Cardinality(at) > 1 THEN [ok |-> FALSE, deps |-> <<>>]
        ELSE IF value = <<>> THEN [ok |-> TRUE, deps |-> below]
        ELSE IF HasPrefix(value, <<"[">>) /\ value[Len(value)] = "]" /\ below = <<>>
        THEN [ok |-> TRUE, deps |-> YamlFlow(SubSeq(value, 2, Len(value) - 1), <<>>)]
        ELSE [ok |-> FALSE, deps |-> <<>>]

\* implicitDependencies as json.Unmarshal gives it
DeclaredJson(lines) ==
    LET doc == Unmarshal(lines)
        member == SelectSeq(doc.jsonData, LAMBDA m : m.key = <<"implicitDependencies">>)
    IN  IF ~doc.ok THEN [ok |-> FALSE, deps |-> <<>>]
        ELSE IF member = <<>> THEN [ok |-> TRUE, deps |-> <<>>]
        ELSE IF member[1].val.t # "arr" THEN [ok |-> FALSE, deps |-> <<>>]
        ELSE [ok |-> TRUE, deps |-> [k \in DOMAIN member[1].val.v |-> member[1].val.v[k].v]]

Declared(name, lines) ==
    IF name = "app.yaml" THEN DeclaredYaml(lines) ELSE DeclaredJson(lines)


-----------------------------------------------------------------------------
(* dependencyscanner.ScannerRegistry.  A scanner is what the registry can
   see of it: its language, the paths CanScan accepts and the paths on
   which ScanProject returns an error.  A path is its elements. *)

MaxScanners == 2     \* RegisterScanner calls
MaxPaths == 2        \* longest list of paths handed to ScanProjects

BaseDir == <<"ws">>

ProjectDirs == {<<"p">>, <<"q">>}

\* filepath.Join(baseDir, projectDir)
Join(baseDir, projectDir) == baseDir \o projectDir

ProjectPaths == {Join(BaseDir, dir) : dir \in ProjectDirs}

Scanners ==
    {s \in [language : {"go", "javascript"},
            canScan : SUBSET ProjectPaths,
            fails : SUBSET ProjectPaths] : s.fails \subseteq s.canScan}

NoScanner == [language |-> "", canScan |-> {}, fails |-> {}]

\* fmt.Errorf("no scanner found for project: %s", projectPath)
NoScannerFound(projectPath) == [kind |-> "no scanner found", path |-> projectPath]

\* fmt.Errorf("failed to scan project %s: %w", projectPath, err)
ScanFailed(projectPath) == [kind |-> "failed to scan project", path |-> projectPath]

\* the scanner registered last among those that accept the path
FindLastScanner(registered, projectPath) ==
    LET accepting == SelectSeq(registered, LAMBDA s : projectPath \in s.canScan)
    IN  IF accepting = <<>>
        THEN [scanner |-> NoScanner, err |-> NoScannerFound(projectPath)]
        ELSE [scanner |-> accepting[Len(accepting)], err |-> NoError]

\* lines 26-33
FindScanner(registered, projectPath) ==
    LET accepting == SelectSeq(registered, LAMBDA s : projectPath \in s.canScan)
    IN  IF accepting = <<>>
        THEN [scanner |-> NoScanner, err |-> NoScannerFound(projectPath)]
        ELSE [scanner |-> accepting[1], err |-> NoError]

\* what ScanProject of a scanner returns for a path
ScanProject(scanner, projectPath) ==
    IF projectPath \in scanner.fails
    THEN [deps |-> "nil", err |-> [kind |-> "scan error"]]
    ELSE [deps |-> [ProjectPath |-> projectPath,
                    Language |-> scanner.language,
                    Dependencies |-> <<>>],
          err |-> NoError]

\* dg.Projects[deps.ProjectPath] = deps
AddProject(dg, deps) ==
    [p \in DOMAIN dg \cup {deps.ProjectPath} |->
        IF p = deps.ProjectPath THEN deps ELSE dg[p]]

\* the loop returning what it has built when a scan fails
RECURSIVE ScanKeepingPartial(_, _, _)
ScanKeepingPartial(registered, projectPaths, dg) ==
    IF projectPaths = <<>> THEN [graph |-> dg, err |-> NoError]
    ELSE LET projectPath == projectPaths[1]
             hit == FindScanner(registered, projectPath)
             scan == ScanProject(hit.scanner, projectPath)
         IN  IF hit.err.kind # "none"
             THEN ScanKeepingPartial(registered, Tail(projectPaths), dg)
             ELSE IF scan.err.kind # "none"
             THEN [graph |-> dg, err |-> ScanFailed(projectPath)]
             ELSE ScanKeepingPartial(registered, Tail(projectPaths),
                                     AddProject(dg, scan.deps))

\* lines 39-54, from the graph dg built so far
RECURSIVE ScanLoop(_, _, _)
ScanLoop(registered, projectPaths, dg) ==
    IF projectPaths = <<>> THEN [graph |-> dg, err |-> NoError]
    ELSE LET projectPath == projectPaths[1]
             hit == FindScanner(registered, projectPath)
             scan == ScanProject(hit.scanner, projectPath)
         IN  IF hit.err.kind # "none"
             THEN ScanLoop(registered, Tail(projectPaths), dg)
             ELSE IF scan.err.kind # "none"
             THEN [graph |-> "nil", err |-> ScanFailed(projectPath)]
             ELSE ScanLoop(registered, Tail(projectPaths), AddProject(dg, scan.deps))

\* NewDependencyGraph
NewDependencyGraph == <<>>

PathLists(S) == UNION {[1..n -> S] : n \in 0..MaxPaths}

\* lines 21-23
RegisterScanner ==
    /\ Len(scanners) < MaxScanners
    /\ found = NoCall
    /\ scanned = NoCall
    /\ \E scanner \in Scanners : scanners' = Append(scanners, scanner)
    /\ UNCHANGED <<found, scanned>>
    /\ UNCHANGED notRegistry

\* lines 26-33; the call whose result is kept
FindScannerCall ==
    /\ found = NoCall
    /\ \E projectPath \in ProjectPaths :
         LET r == FindScanner(scanners, projectPath)
         IN  found' = [path |-> projectPath, scanner |-> r.scanner, err |-> r.err]
    /\ UNCHANGED <<scanners, scanned>>
    /\ UNCHANGED notRegistry

\* lines 36-55
ScanProjects ==
    /\ scanned = NoCall
    /\ \E projectPaths \in PathLists(ProjectPaths) :
         LET r == ScanLoop(scanners, projectPaths, NewDependencyGraph)
         IN  scanned' = [paths |-> projectPaths, graph |-> r.graph, err |-> r.err]
    /\ UNCHANGED <<scanners, found>>
    /\ UNCHANGED notRegistry

\* lines 58-78
ScanProjectsRecursive ==
    /\ scanned = NoCall
    /\ \E projectDirs \in PathLists(ProjectDirs) :
         LET projectPaths == [i \in DOMAIN projectDirs |-> Join(BaseDir, projectDirs[i])]
             r == ScanLoop(scanners, projectPaths, NewDependencyGraph)
         IN  scanned' = [paths |-> projectPaths, graph |-> r.graph, err |-> r.err]
    /\ UNCHANGED <<scanners, found>>
    /\ UNCHANGED notRegistry

InitRegistry ==
    /\ projects = <<>>
    /\ ResolverIdle
    /\ ExecIdle
    /\ PipeIdle
    /\ EnvIdle
    /\ SyncIdle
    /\ RegistryIdle
    /\ GoIdle
    /\ ScanIdle
    /\ FormatIdle
    /\ ScriptIdle
    /\ SubstIdle

NextRegistry ==
    \/ RegisterScanner
    \/ FindScannerCall
    \/ ScanProjects
    \/ ScanProjectsRecursive

SpecRegistry == InitRegistry /\ [][NextRegistry]_vars

-----------------------------------------------------------------------------
(* goscan.GoScanner.ScanProject on the lines of a go.mod, and              *)
(* AnalyzeProjectDependencies, which adds the imports found in the sources *)

\* strings.Fields: the maximal runs without white space
RECURSIVE Fields(_)
Fields(s) ==
    LET t == TrimLeft(s, {SP, TAB})
        stops == {i \in DOMAIN t : t[i] \in {SP, TAB}}
        n == IF stops = {} THEN Len(t) + 1
             ELSE CHOOSE i \in stops : \A j \in stops : i <= j
    IN  IF t = <<>> THEN <<>>
        ELSE <<SubSeq(t, 1, n - 1)>> \o Fields(SubSeq(t, n, Len(t)))

\* a Dependency as parseDependency fills it in (Source is left empty)
Dependency(target, version, isDirect) ==
    [Source |-> "", Target |-> target, Version |-> version, IsDirect |-> isDirect,
     ImportPaths |-> <<target>>]

\* parseDependency, for len(parts) >= 1 (both callers check it)
ParseDependency(parts) ==
    Dependency(parts[1],
               IF Len(parts) >= 2 THEN parts[2] ELSE <<>>,
               ~(Len(parts) >= 3 /\ parts[3] = <<"//", "indirect">>))

\* the loop of ScanProject from line i on
RECURSIVE ScanGoMod(_, _, _, _)
ScanGoMod(lines, i, inRequireBlock, deps) ==
    IF i > Len(lines) THEN deps
    ELSE LET line == TrimSpace(lines[i])
             parts == Fields(line)
         IN  IF line = <<>> \/ HasPrefix(line, <<"//">>)
             THEN ScanGoMod(lines, i + 1, inRequireBlock, deps)
             ELSE IF HasPrefix(line, <<"require", SP, "(">>)
             THEN ScanGoMod(lines, i + 1, TRUE, deps)
             ELSE IF HasPrefix(line, <<"require", SP>>)
             THEN ScanGoMod(lines, i + 1, inRequireBlock,
                            IF Len(parts) >= 2
                            THEN Append(deps, ParseDependency(Tail(parts)))
                            ELSE deps)
             ELSE IF HasPrefix(line, <<"replace", SP, "(">>)
                     \/ HasPrefix(line, <<"replace", SP>>)
             THEN ScanGoMod(lines, i + 1, inRequireBlock, deps)
             ELSE IF line = <<")">>
             THEN ScanGoMod(lines, i + 1, FALSE, deps)
             ELSE IF inRequireBlock
             THEN ScanGoMod(lines, i + 1, inRequireBlock,
                            Append(deps, ParseDependency(parts)))
             ELSE ScanGoMod(lines, i + 1, inRequireBlock, deps)

\* the Dependencies of the ProjectDependencies ScanProject returns
GoScanProject(lines) == ScanGoMod(lines, 1, FALSE, <<>>)

\* the tokens that contain a dot
Dotted == {"github.com"}

\* strings.Split(s, "/")
RECURSIVE Split(_)
Split(s) ==
    LET stops == {i \in DOMAIN s : s[i] = "/"}
    IN  IF stops = {} THEN <<s>>
        ELSE LET n == CHOOSE i \in stops : \A j \in stops : i <= j
             IN  <<SubSeq(s, 1, n - 1)>> \o Split(SubSeq(s, n + 1, Len(s)))

\* filepath.Join of three segments that need no cleaning
JoinThree(a, b, c) == a \o <<"/">> \o b \o <<"/">> \o c

\* extractBasePackage
ExtractBasePackage(importPath) ==
    IF ~(\E i \in DOMAIN importPath : importPath[i] \in Dotted) THEN importPath
    ELSE LET parts == Split(importPath)
         IN  IF Len(parts) >= 3 THEN JoinThree(parts[1], parts[2], parts[3])
             ELSE importPath

\* usedImports: the imports under their base package, in the order met
UsedImports(imports) ==
    [basePkg \in {ExtractBasePackage(imports[i]) : i \in DOMAIN imports} |->
        SelectSeq(imports, LAMBDA imp : ExtractBasePackage(imp) = basePkg)]

\* AnalyzeProjectDependencies once both scans succeeded
Analyze(lines, imports) ==
    LET deps == GoScanProject(lines)
        usedImports == UsedImports(imports)
    IN  [i \in DOMAIN deps |->
            IF deps[i].Target \in DOMAIN usedImports
            THEN [deps[i] EXCEPT !.ImportPaths = usedImports[deps[i].Target]]
            ELSE deps[i]]

\* ---- the steps

\* GoScanner.ScanProject on the project
GoScannerScanProject ==
    /\ scanDeps = NoCall
    /\ scanDeps' = [kind |-> "scanned", deps |-> GoScanProject(goMod)]
    /\ UNCHANGED <<requires, goMod, sourceImports, analysis>>
    /\ UNCHANGED notGo

\* AnalyzeProjectDependencies on the project; ScanImports hands over the
\* imports in the order of a map
AnalyzeProjectDependencies ==
    /\ analysis = NoCall
    /\ \E imports \in MapOrders(sourceImports) :
          analysis' = [kind |-> "analysed", imports |-> imports,
                       deps |-> Analyze(goMod, imports)]
    /\ UNCHANGED <<requires, goMod, sourceImports, scanDeps>>
    /\ UNCHANGED notGo

\* ---- the projects looked at

MaxRequires == 2
MaxImports == 2

ModulePaths ==
    {<<"github.com", "/", "u", "/", "r">>,
     <<"github.com", "/", "u", "/", "r", "/", "v2">>,
     <<"duck", "/", "common">>}

\* how an entry says that nothing of the project imports it directly
Markers == {<<>>, <<"//", SP, "indirect">>, <<"//", "indirect">>}

RequireEntries ==
    [target : ModulePaths, version : {<<"v1.0.0">>}, marker : Markers]

RequireLists ==
    {l \in UNION {[1..n -> RequireEntries] : n \in 0..MaxRequires} :
        \A i, j \in DOMAIN l : l[i].target = l[j].target => i = j}

EntryLine(e) ==
    e.target \o <<SP>> \o e.version
        \o (IF e.marker = <<>> THEN <<>> ELSE <<SP>> \o e.marker)

GoModHeader == << <<"module", SP, "duck">>, <<>>, <<"go", SP, "1.21">>, <<>> >>

\* every requirement on a line of its own
GoModSingle(l) ==
    GoModHeader \o [i \in DOMAIN l |-> <<"require", SP>> \o EntryLine(l[i])]

\* the requirements in one block
GoModBlock(l) ==
    GoModHeader \o << <<"require", SP, "(">> >>
        \o [i \in DOMAIN l |-> <<TAB>> \o EntryLine(l[i])]
        \o << <<")">> >>

ImportPathsSeen ==
    ModulePaths \cup
    {<<"github.com", "/", "u", "/", "r", "/", "pkg">>,
     <<"github.com", "/", "u", "/", "r", "/", "v2", "/", "pkg">>,
     <<"duck", "/", "common", "/", "util">>,
     <<"fmt">>}

ImportSets == {s \in SUBSET ImportPathsSeen : Cardinality(s) <= MaxImports}

InitGo ==
    /\ projects = <<>>
    /\ ResolverIdle
    /\ ExecIdle
    /\ PipeIdle
    /\ EnvIdle
    /\ SyncIdle
    /\ RegistryIdle
    /\ requires \in RequireLists
    /\ goMod \in {GoModSingle(requires), GoModBlock(requires)}
    /\ sourceImports \in ImportSets
    /\ scanDeps = NoCall
    /\ analysis = NoCall
    /\ ScanIdle
    /\ FormatIdle
    /\ ScriptIdle
    /\ SubstIdle

NextGo ==
    \/ GoScannerScanProject
    \/ AnalyzeProjectDependencies

SpecGo == InitGo /\ [][NextGo]_vars

-----------------------------------------------------------------------------
(* scanner.Scanner.ScanProjects: the project map of a workspace, as        *)
(* LoadProjectData builds it, and the first loop of the resolver on it     *)

\* a directory: its volume ("" where there are none) and its elements
DirPath(vol, segs) == [vol |-> vol, segs |-> segs]

\* the elements of a path with '/' between them
RECURSIVE JoinSlash(_)
JoinSlash(segs) ==
    IF segs = <<>> THEN <<>>
    ELSE IF Len(segs) = 1 THEN <<segs[1]>>
    ELSE <<segs[1], "/">> \o JoinSlash(Tail(segs))

\* the directories a walk of root comes through
Within(dir, root) ==
    /\ dir.vol = root.vol
    /\ Len(root.segs) <= Len(dir.segs)
    /\ SubSeq(dir.segs, 1, Len(root.segs)) = root.segs

\* filepath.Base(filepath.Dir(dir)) of a directory below the root
ParentBase(dir) == dir.segs[Len(dir.segs) - 1]

\* filepath.Rel(basepath, targpath) on two absolute, clean paths: no
\* relative path leads from one volume to another
Rel(basepath, targpath) ==
    IF basepath.vol # targpath.vol THEN [ok |-> FALSE, path |-> <<>>]
    ELSE LET shared == {n \in 0..Len(basepath.segs) :
                           /\ n <= Len(targpath.segs)
                           /\ SubSeq(basepath.segs, 1, n) = SubSeq(targpath.segs, 1, n)}
             n == CHOOSE m \in shared : \A k \in shared : k <= m
             up == [i \in 1..(Len(basepath.segs) - n) |-> ".."]
             down == SubSeq(targpath.segs, n + 1, Len(targpath.segs))
         IN  [ok |-> TRUE,
              path |-> IF up \o down = <<>> THEN <<".">> ELSE JoinSlash(up \o down)]

\* a manifest that is not there
NoManifest == [exists |-> FALSE, name |-> "", namespace |-> "", dependencies |-> <<>>]

LoadFailed == [ok |-> FALSE, Name |-> "", Namespace |-> "", Dependencies |-> <<>>]

\* config.LoadAppConfig
LoadAppConfig(dir, file) ==
    IF file.name = "" THEN LoadFailed
    ELSE [ok |-> TRUE, Name |-> file.name,
          Namespace |-> IF file.namespace = "" THEN ParentBase(dir) ELSE file.namespace,
          Dependencies |-> file.dependencies]

\* config.LoadNxProjectConfig, for a project without targets
LoadNxProjectConfig(dir, file) ==
    IF file.name = "" THEN LoadFailed
    ELSE [ok |-> TRUE, Name |-> file.name, Namespace |-> ParentBase(dir),
          Dependencies |-> <<>>]

\* fmt.Sprintf("%s/%s", appConfig.Namespace, appConfig.Name)
NamespaceSlashName(appConfig) == <<appConfig.Namespace, "/", appConfig.Name>>

\* scanner.go, lines 110-118
ProjectKey(workspaceRoot, projectDir, appConfig) ==
    LET rel == Rel(workspaceRoot, projectDir)
    IN  IF rel.ok THEN rel.path ELSE NamespaceSlashName(appConfig)

\* s.projects[projectKey] = &config.AppProject{Config: appConfig, Path: projectDir}
StoreProject(st, projectKey, appConfig, projectDir) ==
    LET record == [Config |-> [Name |-> appConfig.Name,
                               Namespace |-> appConfig.Namespace,
                               Dependencies |-> appConfig.Dependencies],
                   Path |-> projectDir]
    IN  [projects |-> [k \in DOMAIN st.projects \cup {projectKey} |->
                          IF k = projectKey THEN record ELSE st.projects[k]],
         stored |-> Append(st.stored, [key |-> projectKey, dir |-> projectDir])]

\* the callback of the walk on one file of a directory
VisitFile(st, fs, workspaceRoot, projectDir, fileName, configFileNames, scanAll, byPath) ==
    IF fileName \notin Range(configFileNames) THEN st
    ELSE IF /\ scanAll
            /\ fileName = "project.json"
            /\ fs[projectDir]["app.yaml"].exists
    THEN st
    ELSE LET appConfig ==
                 IF fileName = "app.yaml"
                 THEN LoadAppConfig(projectDir, fs[projectDir]["app.yaml"])
                 ELSE LoadNxProjectConfig(projectDir, fs[projectDir]["project.json"])
         IN  IF ~appConfig.ok THEN st
             ELSE StoreProject(st,
                      IF byPath THEN ProjectKey(workspaceRoot, projectDir, appConfig)
                      ELSE NamespaceSlashName(appConfig),
                      appConfig, projectDir)

\* the files a walk meets, in its order, from the k-th on
RECURSIVE WalkFiles(_, _, _, _, _, _, _, _)
WalkFiles(st, fs, walk, k, workspaceRoot, configFileNames, scanAll, byPath) ==
    IF k > Len(walk) THEN st
    ELSE With(VisitFile(st, fs, workspaceRoot, walk[k].dir, walk[k].file,
                        configFileNames, scanAll, byPath),
              LAMBDA next :
                  WalkFiles(next, fs, walk, k + 1, workspaceRoot, configFileNames,
                            scanAll, byPath))

\* the manifests below a root, in lexical order
WalkOf(fs, walkOrder, root) ==
    LET entries == [i \in 1..(2 * Len(walkOrder)) |->
                     [dir |-> walkOrder[(i + 1) \div 2],
                      file |-> IF i % 2 = 1 THEN "app.yaml" ELSE "project.json"]]
    IN  SelectSeq(entries, LAMBDA f : Within(f.dir, root) /\ fs[f.dir][f.file].exists)

\* scanDirectory
ScanDirectory(st, fs, walkOrder, workspaceRoot, targetDir, configFileNames, scanAll, byPath) ==
    WalkFiles(st, fs, WalkOf(fs, walkOrder, targetDir), 1, workspaceRoot,
              configFileNames, scanAll, byPath)

RECURSIVE ScanAdditional(_, _, _, _, _, _, _)
ScanAdditional(st, fs, walkOrder, workspaceRoot, additional, configFileNames, scanAll) ==
    IF additional = <<>> THEN st
    ELSE With(ScanDirectory(st, fs, walkOrder, workspaceRoot, additional[1],
                            configFileNames, scanAll, TRUE),
              LAMBDA next :
                  ScanAdditional(next, fs, walkOrder, workspaceRoot, Tail(additional),
                                 configFileNames, scanAll))

\* the switch on ProjectConfigFormat
ConfigFileNames(format) ==
    CASE format = "duck" -> <<"app.yaml">>
      [] format = "nx" -> <<"project.json">>
      [] format = "all" -> <<"app.yaml", "project.json">>

NewScanner == [projects |-> <<>>, stored |-> <<>>]

\* ---- the workspaces looked at

\* os.Getwd(): where duck.yaml is
WorkspaceRoot == DirPath("", <<"ws">>)

CoreWeb == DirPath("", <<"ws", "apps", "core", "web">>)
SharedDb == DirPath("", <<"ws", "apps", "shared", "db">>)
TopSharedDb == DirPath("", <<"ws", "shared", "db">>)
ElsewhereDb == DirPath("D:", <<"ext", "shared", "db">>)

\* the project directories in the order a walk meets them
WalkOrder == <<CoreWeb, SharedDb, TopSharedDb, ElsewhereDb>>

AppYaml(name, namespace, dependencies) ==
    [exists |-> TRUE, name |-> name, namespace |-> namespace,
     dependencies |-> dependencies]

ProjectJson(name) ==
    [exists |-> TRUE, name |-> name, namespace |-> "", dependencies |-> <<>>]

Manifests(appYaml, projectJson) ==
    [f \in {"app.yaml", "project.json"} |->
        IF f = "app.yaml" THEN appYaml ELSE projectJson]

\* "shared/db", a dependency written as namespace/name
SharedSlashDb == <<"shared", "/", "db">>

ManifestsOf(dir) ==
    CASE dir = CoreWeb ->
            {Manifests(NoManifest, NoManifest),
             Manifests(AppYaml("web", "", <<>>), NoManifest),
             Manifests(AppYaml("web", "", <<SharedSlashDb>>), NoManifest),
             Manifests(AppYaml("db", "shared", <<>>), NoManifest)}
      [] dir = SharedDb ->
            {Manifests(NoManifest, NoManifest),
             Manifests(AppYaml("db", "", <<>>), NoManifest),
             Manifests(NoManifest, ProjectJson("db")),
             Manifests(AppYaml("db", "", <<>>), ProjectJson("db")),
             Manifests(AppYaml("", "", <<>>), NoManifest)}
      [] dir = TopSharedDb ->
            {Manifests(NoManifest, NoManifest),
             Manifests(AppYaml("db", "", <<>>), NoManifest)}
      [] dir = ElsewhereDb ->
            {Manifests(NoManifest, NoManifest),
             Manifests(AppYaml("db", "", <<>>), NoManifest),
             Manifests(NoManifest, ProjectJson("db"))}

Workspaces ==
    {fs \in [Range(WalkOrder) -> UNION {ManifestsOf(d) : d \in Range(WalkOrder)}] :
        \A d \in Range(WalkOrder) : fs[d] \in ManifestsOf(d)}

\* duck.yaml as LoadProjectConfig returns it: every directory absolute
ScanConfigs ==
    [TargetDirectory : {WorkspaceRoot, DirPath("", <<"ws", "apps">>)},
     AdditionalDirectories : {<<>>, <<DirPath("D:", <<"ext">>)>>,
                              <<DirPath("", <<"ws", "shared">>)>>},
     ProjectConfigFormat : {"duck", "nx", "all"}]

\* ---- the steps

\* internal/scanner/scanner.go, ScanProjects
ScannerScanProjects ==
    /\ scanOut = NoCall
    /\ LET configFileNames == ConfigFileNames(scanConfig.ProjectConfigFormat)
           scanAll == scanConfig.ProjectConfigFormat = "all"
           target == ScanDirectory(NewScanner, scanFs, WalkOrder, WorkspaceRoot,
                                   scanConfig.TargetDirectory, configFileNames,
                                   scanAll, TRUE)
           all == ScanAdditional(target, scanFs, WalkOrder, WorkspaceRoot,
                                 scanConfig.AdditionalDirectories, configFileNames,
                                 scanAll)
       IN  scanOut' = [kind |-> "scanned", projects |-> all.projects,
                       stored |-> all.stored]
    /\ UNCHANGED <<scanFs, scanConfig, resolveOut>>
    /\ UNCHANGED notScan

\* the ScanProjects that keys a project by its namespace and name
ScannerScanProjectsByName ==
    /\ scanOut = NoCall
    /\ LET target == ScanDirectory(NewScanner, scanFs, WalkOrder, WorkspaceRoot,
                                   scanConfig.TargetDirectory,
                                   ConfigFileNames(scanConfig.ProjectConfigFormat),
                                   scanConfig.ProjectConfigFormat = "all", FALSE)
       IN  scanOut' = [kind |-> "scanned by name", projects |-> target.projects,
                       stored |-> target.stored]
    /\ UNCHANGED <<scanFs, scanConfig, resolveOut>>
    /\ UNCHANGED notScan

\* what the resolver is given: the keys and the dependencies declared
AsResolverInput(scannedProjects) ==
    [k \in DOMAIN scannedProjects |->
        [Dependencies |-> scannedProjects[k].Config.Dependencies]]

\* "run --all" on the projects scanned: the first loop of
\* ResolveExecutionOrder, which looks every declared dependency up
ResolveScanned ==
    /\ scanOut # NoCall
    /\ resolveOut = NoCall
    /\ \E order \in MapOrders(DOMAIN scanOut.projects) :
          resolveOut' = [kind |-> "resolved",
                         err |-> BuildGraph(AsResolverInput(scanOut.projects), order).err]
    /\ UNCHANGED <<scanFs, scanConfig, scanOut>>
    /\ UNCHANGED notScan

InitScan ==
    /\ projects = <<>>
    /\ ResolverIdle
    /\ ExecIdle
    /\ PipeIdle
    /\ EnvIdle
    /\ SyncIdle
    /\ RegistryIdle
    /\ GoIdle
    /\ scanFs \in Workspaces
    /\ scanConfig \in ScanConfigs
    /\ scanOut = NoCall
    /\ resolveOut = NoCall
    /\ FormatIdle
    /\ ScriptIdle
    /\ SubstIdle

NextScan ==
    \/ ScannerScanProjects
    \/ ScannerScanProjectsByName
    \/ ResolveScanned

SpecScan == InitScan /\ [][NextScan]_vars

-----------------------------------------------------------------------------
(* cli.ConfigFormat --set: UpdateProjectConfigFormat on the lines of       *)
(* duck.yaml, and the format LoadProjectConfig reads back                  *)

\* fmt.Sprintf("projectConfigFormat: \"%s\"", format)
FormatLine(format) == <<"projectConfigFormat:", SP, Q, format, Q>>

\* the first line whose trimmed text has the prefix, or 0
FirstWithPrefix(lines, prefix) ==
    LET hits == {i \in DOMAIN lines : HasPrefix(TrimSpace(lines[i]), prefix)}
    IN  IF hits = {} THEN 0 ELSE CHOOSE i \in hits : \A j \in hits : i <= j

\* utils.go, lines 86-114: the lines written back
UpdateProjectConfigFormat(lines, format) ==
    LET i == FirstWithPrefix(lines, <<"projectConfigFormat:">>)
        t == FirstWithPrefix(lines, <<"targetDirectory:">>)
    IN  IF i # 0 THEN [lines EXCEPT ![i] = FormatLine(format)]
        ELSE IF t # 0
        THEN SubSeq(lines, 1, t)
                \o << <<>>, <<"#", SP, "Project configuration format">>,
                      FormatLine(format) >>
                \o SubSeq(lines, t + 1, Len(lines))
        ELSE lines

\* a scalar as yaml reads it: the comment and the quotes taken off
Scalar(text) ==
    LET marks == {i \in DOMAIN text : text[i] = "#"}
        cut == IF marks = {} THEN text
               ELSE SubSeq(text, 1, (CHOOSE i \in marks : \A j \in marks : i <= j) - 1)
    IN  Trim(TrimSpace(cut), {Q})

\* project.go, lines 39-56: the ProjectConfigFormat of the loaded document,
\* "invalid" when LoadProjectConfig returns its error
LoadedFormat(lines) ==
    LET keyed == {i \in DOMAIN lines : HasPrefix(lines[i], <<"projectConfigFormat:">>)}
    IN  IF keyed = {} THEN "duck"
        ELSE LET value == Scalar(Tail(lines[CHOOSE i \in keyed : TRUE]))
             IN  IF value = <<>> THEN "duck"
                 ELSE IF Len(value) = 1 /\ value[1] \in {"duck", "nx", "all"}
                 THEN value[1]
                 ELSE "invalid"

MaxSetCalls == 2     \* "config format --set" calls in a row

Formats == {"duck", "nx", "all"}

\* commands.go, lines 239-262, for a file that can be read and written
ConfigFormat ==
    /\ Len(setFormats) < MaxSetCalls
    /\ \E setFormat \in Formats :
          /\ duckYaml' = UpdateProjectConfigFormat(duckYaml, setFormat)
          /\ setFormats' = Append(setFormats, setFormat)
    /\ beforeSet' = duckYaml
    /\ UNCHANGED notFormat

\* ---- the workspace manifests looked at

TargetLine == <<"targetDirectory:", SP, Q, "./apps", Q>>

ScriptsBlock ==
    << <<"scripts:">>, <<SP, SP, "build:">>,
       <<SP, SP, SP, SP, "command:", SP, Q, "go build", Q>> >>

\* how a manifest may spell its format
FormatLines ==
    {FormatLine(f) : f \in Formats}
    \cup {<<"projectConfigFormat:", SP, "nx">>,
          <<"projectConfigFormat:", SP, "duck", SP, "#", SP, "default">>}

DuckYamls ==
    {ScriptsBlock, <<TargetLine>> \o ScriptsBlock, ScriptsBlock \o <<TargetLine>>}
    \cup UNION {{<<l>> \o ScriptsBlock,
                 <<TargetLine, l>> \o ScriptsBlock,
                 <<l, TargetLine>> \o ScriptsBlock,
                 <<TargetLine>> \o ScriptsBlock \o <<l>>} : l \in FormatLines}

InitFormat ==
    /\ projects = <<>>
    /\ ResolverIdle
    /\ ExecIdle
    /\ PipeIdle
    /\ EnvIdle
    /\ SyncIdle
    /\ RegistryIdle
    /\ GoIdle
    /\ ScanIdle
    /\ duckYaml \in DuckYamls
    /\ setFormats = <<>>
    /\ beforeSet = duckYaml
    /\ SubstIdle
    /\ ScriptIdle

NextFormat == ConfigFormat

SpecFormat == InitFormat /\ [][NextFormat]_vars

-----------------------------------------------------------------------------
(* executor.replaceVariables.  A text is a sequence of pieces; a          *)
(* placeholder is one piece, so is any other run of characters.           *)

Placeholders == {"{projectRoot}", "{projectName}", "{namespace}", "{workingDir}"}

\* strings.ReplaceAll(s, variable, value)
RECURSIVE ReplaceAll(_, _, _)
ReplaceAll(s, variable, value) ==
    IF s = <<>> THEN <<>>
    ELSE (IF Head(s) = variable THEN value ELSE <<Head(s)>>)
            \o ReplaceAll(Tail(s), variable, value)

\* lines 192-195 with the range over the map taken in the order given
RECURSIVE ReplaceInOrder(_, _, _)
ReplaceInOrder(text, repl, order) ==
    IF order = <<>> THEN text
    ELSE ReplaceInOrder(ReplaceAll(text, Head(order), repl[Head(order)]),
                        repl, Tail(order))

\* lines 185-190: the map built from the project and the working directory
Replacements(project, workingDir) ==
    [variable \in Placeholders |->
        CASE variable = "{projectRoot}" -> project.Path
          [] variable = "{projectName}" -> project.Name
          [] variable = "{namespace}" -> project.Namespace
          [] variable = "{workingDir}" -> workingDir]

\* one turn of "for variable, value := range replacements"
ReplaceVariable ==
    /\ \E variable \in replPending :
          /\ replResult' = ReplaceAll(replResult, variable, replacements[variable])
          /\ replPending' = replPending \ {variable}
    /\ UNCHANGED <<replCommand, replacements>>
    /\ UNCHANGED notSubst

\* ---- the commands and projects looked at

CommandTexts ==
    { <<"echo ", "{projectName}">>,
      <<"cd ", "{projectRoot}", " && ls ", "{workingDir}">>,
      <<"{namespace}", "/", "{projectName}", ":", "{projectName}">> }

SubstProjects ==
    [Path : {<<"/ws/apps/core/web">>, <<"/ws/", "{projectName}">>},
     Name : {<<"web">>, <<"{namespace}">>},
     Namespace : {<<"core">>, <<"{workingDir}">>}]

SubstWorkingDirs == {<<"/ws/apps/core/web">>, <<"{projectRoot}", "/sub">>}

InitSubst ==
    /\ projects = <<>>
    /\ ResolverIdle
    /\ ExecIdle
    /\ PipeIdle
    /\ EnvIdle
    /\ SyncIdle
    /\ RegistryIdle
    /\ GoIdle
    /\ ScanIdle
    /\ FormatIdle
    /\ ScriptIdle
    /\ replCommand \in CommandTexts
    /\ \E project \in SubstProjects, workingDir \in SubstWorkingDirs :
          replacements = Replacements(project, workingDir)
    /\ replPending = Placeholders
    /\ replResult = replCommand

NextSubst == ReplaceVariable

SpecSubst == InitSubst /\ [][NextSubst]_vars

-----------------------------------------------------------------------------
(* One call of executor.ExecuteScript, with the process it starts: the sh *)
(* of exec.CommandContext, a process that sh may leave in the background, *)
(* the two goroutines that read the pipes, and the context.               *)

\* fmt.Sprintf("failed to create stdout pipe: %v", err)
StdoutPipeError == "failed to create stdout pipe"

\* fmt.Sprintf("failed to create stderr pipe: %v", err)
StderrPipeError == "failed to create stderr pipe"

\* result := &ExecutionResult{ProjectKey: ..., Script: ...}; result.Error = text
FailedBeforeStart(call, text) == NewResult(call.projectKey, call.script, FALSE, text)

scriptLocals == <<xcall, xctxDone, shellProc, childProc, shellStatus, errorBuilder>>

\* lines 43-66: the look-ups and the disabled script
ScriptEntry ==
    /\ xpc = "call"
    /\ LET r == ExecuteScriptEntry(projects, Catalog, xcall.projectKey, xcall.script, TRUE)
       IN  CASE r.kind = "error" ->
                    /\ xpc' = "returned"
                    /\ xerr' = r.err
                    /\ xresult' = xresult
              [] r.kind = "result" ->
                    /\ xpc' = "returned"
                    /\ xresult' = r.result
                    /\ xerr' = xerr
              [] r.kind = "spawn" ->
                    /\ xpc' = "stdout pipe"
                    /\ UNCHANGED <<xresult, xerr>>
    /\ UNCHANGED scriptLocals
    /\ UNCHANGED notScript

\* lines 103-107: cmd.StdoutPipe()
ScriptStdoutPipe ==
    /\ xpc = "stdout pipe"
    /\ \E ok \in BOOLEAN :
         IF ok THEN /\ xpc' = "stderr pipe"
                    /\ xresult' = xresult
         ELSE /\ xpc' = "returned"
              /\ xresult' = FailedBeforeStart(xcall, StdoutPipeError)
    /\ UNCHANGED <<xerr, scriptLocals>>
    /\ UNCHANGED notScript

\* lines 109-113: cmd.StderrPipe()
ScriptStderrPipe ==
    /\ xpc = "stderr pipe"
    /\ \E ok \in BOOLEAN :
         IF ok THEN /\ xpc' = "start"
                    /\ xresult' = xresult
         ELSE /\ xpc' = "returned"
              /\ xresult' = FailedBeforeStart(xcall, StderrPipeError)
    /\ UNCHANGED <<xerr, scriptLocals>>
    /\ UNCHANGED notScript

\* lines 115-134: cmd.Start() and the two readers; a context that is done
\* already makes Start fail
ScriptStart ==
    /\ xpc = "start"
    /\ \E ok \in (IF xctxDone THEN {FALSE} ELSE BOOLEAN) :
         IF ok THEN /\ xpc' = "reading"
                    /\ shellProc' = "running"
                    /\ xresult' = xresult
         ELSE /\ xpc' = "returned"
              /\ shellProc' = shellProc
              /\ xresult' = FailedBeforeStart(xcall, StartError)
    /\ UNCHANGED <<xerr, xcall, xctxDone, childProc, shellStatus, errorBuilder>>
    /\ UNCHANGED notScript

\* a process that holds the write end of the stderr pipe
HoldsPipes == shellProc = "running" \/ childProc = "holding"

\* a process of the command that has not ended
StillRunning == shellProc = "running" \/ childProc \in {"holding", "detached"}

\* the command writes a line to stderr; copyOutput (lines 200-205) puts it
\* into errorBuilder
StderrLine ==
    /\ xpc = "reading"
    /\ HoldsPipes
    /\ errorBuilder = ""
    /\ errorBuilder' = "text on stderr"
    /\ UNCHANGED <<xpc, xresult, xerr, xcall, xctxDone, shellProc, childProc, shellStatus>>
    /\ UNCHANGED notScript

\* sh starts a process of its own ("server &"): it inherits the pipes, or
\* has its output sent elsewhere
ShellForks ==
    /\ shellProc = "running"
    /\ childProc = "none"
    /\ childProc' \in {"holding", "detached"}
    /\ UNCHANGED <<xpc, xresult, xerr, xcall, xctxDone, shellProc, shellStatus, errorBuilder>>
    /\ UNCHANGED notScript

\* sh ends by itself
ShellExits ==
    /\ shellProc = "running"
    /\ shellProc' = "exited"
    /\ shellStatus' \in {"ok", "failed"}
    /\ UNCHANGED <<xpc, xresult, xerr, xcall, xctxDone, childProc, errorBuilder>>
    /\ UNCHANGED notScript

\* the process sh started ends by itself
ChildExits ==
    /\ childProc \in {"holding", "detached"}
    /\ childProc' = "exited"
    /\ UNCHANGED <<xpc, xresult, xerr, xcall, xctxDone, shellProc, shellStatus, errorBuilder>>
    /\ UNCHANGED notScript

\* the caller cancels ctx
ScriptCancel ==
    /\ xpc \notin {"idle", "returned"}
    /\ ~xctxDone
    /\ xctxDone' = TRUE
    /\ UNCHANGED <<xpc, xresult, xerr, xcall, shellProc, childProc, shellStatus, errorBuilder>>
    /\ UNCHANGED notScript

\* exec.CommandContext (line 90): once ctx is done os/exec calls
\* cmd.Process.Kill, which signals the process of sh and no other
ContextKills ==
    /\ xctxDone
    /\ shellProc = "running"
    /\ shellProc' = "exited"
    /\ shellStatus' = "killed"
    /\ UNCHANGED <<xpc, xresult, xerr, xcall, xctxDone, childProc, errorBuilder>>
    /\ UNCHANGED notScript

\* line 136, wg.Wait(): both readers have seen the end of their pipe,
\* which comes when no process holds a write end any more
ReadersDone ==
    /\ xpc = "reading"
    /\ ~HoldsPipes
    /\ xpc' = "wait"
    /\ UNCHANGED <<xresult, xerr, scriptLocals>>
    /\ UNCHANGED notScript

\* lines 138-154: cmd.Wait() and the result
ScriptWait ==
    /\ xpc = "wait"
    /\ xresult' = WaitResult(xcall.projectKey, xcall.script, shellStatus, errorBuilder)
    /\ xpc' = "returned"
    /\ UNCHANGED <<xerr, scriptLocals>>
    /\ UNCHANGED notScript

\* ---- the calls looked at

ScriptProjects ==
    {<<>>} \cup {[k \in {"a"} |-> [Dependencies |-> <<>>, Scripts |-> s]] : s \in ScriptSettings}

InitScript ==
    /\ projects \in ScriptProjects
    /\ ResolverIdle
    /\ ExecIdle
    /\ PipeIdle
    /\ EnvIdle
    /\ SyncIdle
    /\ RegistryIdle
    /\ GoIdle
    /\ ScanIdle
    /\ FormatIdle
    /\ SubstIdle
    /\ xcall \in [projectKey : {"a"}, script : ScriptNames]
    /\ xpc = "call"
    /\ xctxDone \in BOOLEAN
    /\ shellProc = "none"
    /\ childProc = "none"
    /\ shellStatus = "none"
    /\ errorBuilder = ""
    /\ xresult = NoCall
    /\ xerr = NoError

NextScript ==
    \/ ScriptEntry
    \/ ScriptStdoutPipe
    \/ ScriptStderrPipe
    \/ ScriptStart
    \/ StderrLine
    \/ ShellForks
    \/ ShellExits
    \/ ChildExits
    \/ ScriptCancel
    \/ ContextKills
    \/ ReadersDone
    \/ ScriptWait

SpecScript == InitScript /\ [][NextScript]_vars

\* the steps of ExecuteScript and of os/exec are taken when they can be; the
\* processes of the command end, fork and write when they choose to
SpecScriptLive ==
    /\ SpecScript
    /\ WF_vars(ScriptEntry)
    /\ WF_vars(ScriptStdoutPipe)
    /\ WF_vars(ScriptStderrPipe)
    /\ WF_vars(ScriptStart)
    /\ WF_vars(ContextKills)
    /\ WF_vars(ReadersDone)
    /\ WF_vars(ScriptWait)

-----------------------------------------------------------------------------
(* What the input of the resolver is, read off the project map alone *)

Keys == DOMAIN projects

DepsOf(k) == Range(projects[k].Dependencies)

AllDepsExist == \A k \in Keys : DepsOf(k) \subseteq Keys

RECURSIVE ReachFrom(_, _)
ReachFrom(S, n) ==
    IF n = 0 THEN S
    ELSE ReachFrom(S \cup UNION {DepsOf(k) \cap Keys : k \in S}, n - 1)

\* the projects k depends on, directly or through other projects
DependsOn(k) == ReachFrom(DepsOf(k) \cap Keys, Cardinality(Keys))

Cyclic == \E k \in Keys : k \in DependsOn(k)

Position(order, k) == CHOOSE i \in DOMAIN order : order[i] = k

\* emit the smallest key among the projects not yet emitted whose
\* dependencies have all been emitted, until there is none
RECURSIVE SmallestReadyOrder(_)
SmallestReadyOrder(emitted) ==
    LET ready == {k \in Keys \ Range(emitted) : DepsOf(k) \subseteq Range(emitted)}
    IN  IF ready = {} THEN emitted
        ELSE LET m == CHOOSE x \in ready : \A y \in ready \ {x} : Less(x, y)
             IN  SmallestReadyOrder(Append(emitted, m))

IsPrefix(s, t) == Len(s) <= Len(t) /\ s = SubSeq(t, 1, Len(s))

-----------------------------------------------------------------------------
(* Claims about the resolver, checked under SpecResolve *)

\* C1: when every declared dependency exists and the dependency relation
\* is acyclic, ResolveExecutionOrder succeeds, its ExecutionOrder holds
\* every project key exactly once, and every project comes after all the
\* projects it declares as dependencies.
C1_OrderIsTopological ==
    (rpc = "done" /\ AllDepsExist /\ ~Cyclic) =>
        /\ rret.err = NoError
        /\ LET order == rret.result.ExecutionOrder
           IN  /\ Len(order) = Cardinality(Keys)
               /\ Range(order) = Keys
               /\ \A k \in Keys : \A d \in DepsOf(k) :
                      Position(order, d) < Position(order, k)

C1_Witness ==
    /\ rpc = "done"
    /\ AllDepsExist /\ ~Cyclic
    /\ rret.err = NoError
    /\ rret.result.ExecutionOrder = <<"b", "ab", "a">>

\* C2: the order is the one obtained by repeatedly emitting the
\* lexicographically smallest key among the not-yet-emitted projects whose
\* dependencies have all been emitted, whatever order the maps are ranged in.
C2_SmallestReadyFirst ==
    /\ (rpc \in {"loop", "done"} /\ AllDepsExist) =>
           IsPrefix(executionOrder, SmallestReadyOrder(<<>>))
    /\ (rpc = "done" /\ rret.err = NoError) =>
           rret.result.ExecutionOrder = SmallestReadyOrder(<<>>)

C2_Witness ==
    /\ rpc = "done"
    /\ rret.err = NoError
    /\ Keys = KeyUniverse
    /\ projects["a"].Dependencies = <<"b">>
    /\ rret.result.ExecutionOrder = <<"ab", "b", "a">>

\* C3: when every declared dependency exists and the dependency relation
\* has a cycle (a project depending on itself included), the call returns
\* the circular dependency error and no result, also when projects outside
\* the cycle were ordered.
C3_CycleIsAnError ==
    (rpc = "done" /\ AllDepsExist /\ Cyclic) =>
        /\ rret.err = CircularError
        /\ rret.result = "nil"

C3_Witness ==
    /\ rpc = "done"
    /\ AllDepsExist /\ Cyclic
    /\ executionOrder # <<>>
    /\ rret = [result |-> "nil", err |-> CircularError]

\* C4: when some project declares a dependency that is no key of the map,
\* the call fails with an error naming a project and a missing dependency
\* of that project, returns no result, and no ordering has been attempted,
\* also when the input has a cycle.
C4_MissingDependencyIsAnError ==
    ~AllDepsExist =>
        /\ rpc \in {"build", "done"}
        /\ queue = <<>> /\ executionOrder = <<>>
        /\ rpc = "done" =>
              /\ rret.result = "nil"
              /\ rret.err.kind = "missing"
              /\ rret.err.project \in Keys
              /\ rret.err.dep \in DepsOf(rret.err.project)
              /\ rret.err.dep \notin Keys

C4_Witness ==
    /\ rpc = "done"
    /\ ~AllDepsExist /\ Cyclic
    /\ rret.err.kind = "missing"

-----------------------------------------------------------------------------
(* Claims about the executor and the loop of RunScript, checked under
   SpecExec *)

Last(s) == s[Len(s)]

Setting(key) == projects[key].Scripts[scriptName]

\* C5: sequential execution is fail-fast: the projects executed are the
\* prefix of the key list up to and including the first project whose
\* result is not successful, the results are that prefix in order, every
\* result but possibly the last is successful, nothing after the first
\* non-success is attempted, and RunScript then ends with an error.
C5_FailFast ==
    /\ IsPrefix(attempted, projectKeys)
    /\ Len(results) <= Len(attempted)
    /\ \A i \in DOMAIN results :
          /\ results[i].ProjectKey = projectKeys[i]
          /\ i < Len(results) => results[i].Success
    /\ (results # <<>> /\ ~Last(results).Success) =>
          /\ epc = "done"
          /\ Len(attempted) = Len(results)
          /\ mode = "run" => eret = ScriptFailed(Last(results).ProjectKey)
    /\ (epc = "done" /\ eret = NoError) =>
          \/ Len(results) = Len(projectKeys)
          \/ results # <<>> /\ ~Last(results).Success

C5_Witness ==
    /\ mode = "batch"
    /\ epc = "done"
    /\ projectKeys = <<"a", "b", "ab">>
    /\ Len(results) = 2
    /\ results[1].Success
    /\ results[2] = NewResult("b", "build", FALSE, "exit status 1")
    /\ attempted = <<"a", "b">>

\* C6: a project whose manifest maps the script name to false gets, when
\* the project and the script exist, a result with Success = false and the
\* disabled error text, and no subprocess is started for it; a project
\* that does not mention the script, or maps it to true, is never given
\* the disabled result.
C6_DisabledResult ==
    /\ \A i \in DOMAIN attempted :
          LET key == attempted[i]
          IN  (key \in DOMAIN projects /\ scriptName \in scripts
                  /\ Setting(key) = "false") =>
                 /\ i \in DOMAIN results
                 /\ results[i] = NewResult(key, scriptName, FALSE, DisabledError)
                 /\ key \notin Range(spawned)
    /\ \A i \in DOMAIN results :
          results[i].Error = DisabledError =>
             Setting(results[i].ProjectKey) = "false"

C6_Witness ==
    /\ Len(results) = 2
    /\ results[1].Success
    /\ projects[results[1].ProjectKey] = [Dependencies |-> <<>>, Scripts |-> NoScripts]
    /\ results[2] = NewResult("b", "build", FALSE, DisabledError)
    /\ spawned = <<results[1].ProjectKey>>

\* C7: a script disabled for a project is not a failure of the run: when
\* a batch reaches such a project, the projects after it are still executed
\* and the run is not reported as failed because of it.  So a call that
\* has ended right after a disabled result has reached the end of its list
\* and returned no error.
C7_DisabledDoesNotStopTheRun ==
    (epc = "done" /\ results # <<>> /\ Last(results).Error = DisabledError) =>
        /\ Len(results) = Len(projectKeys)
        /\ eret = NoError

\* C9: ExecuteScript with a project key that is not in the project map,
\* or a script name that is not in the catalog, returns a not found error
\* and no result and starts no process, the lookups coming before the
\* disabled check; in ExecuteScriptOnProjects the error ends the batch at
\* once, with the results collected so far.
C9_NotFoundAborts ==
    /\ attempted # <<>> =>
          LET n == Len(attempted)
              key == attempted[n]
              unknown == key \notin DOMAIN projects \/ scriptName \notin scripts
              err == IF key \notin DOMAIN projects THEN ProjectNotFound(key)
                     ELSE ScriptNotFound(scriptName)
          IN  unknown =>
                 /\ epc = "done"
                 /\ eret = IF mode = "run" THEN ExecutionFailed(err) ELSE err
                 /\ Len(results) = n - 1
                 /\ Len(spawned) = n - 1
                 /\ \A i \in DOMAIN results : results[i].Success
    /\ (mode = "batch" /\ eret.kind = "not found") =>
          /\ epc = "done"
          /\ attempted # <<>>
          /\ \/ Last(attempted) \notin DOMAIN projects
             \/ scriptName \notin scripts

C9_Witness ==
    /\ mode = "batch"
    /\ epc = "done"
    /\ eret = ScriptNotFound("test")
    /\ attempted = <<"a">>
    /\ projects["a"].Scripts["test"] = "false"
    /\ results = <<>>
    /\ spawned = <<>>

\* C10: in ExecuteScriptOnProjects the cancellation signal is checked
\* before each project is started: when it is set as a project's turn
\* comes, neither that project nor a later one is executed, and the call
\* returns the results collected so far with the cancellation error.
C10_CancelCheckedBeforeEachProject ==
    /\ [][(mode = "batch" /\ epc = "loop" /\ idx <= Len(projectKeys) /\ ctxDone) =>
             /\ epc' = "done"
             /\ eret' = Canceled
             /\ results' = results
             /\ attempted' = attempted
             /\ spawned' = spawned]_vars
    /\ [](eret = Canceled =>
             /\ epc = "done"
             /\ ctxDone
             /\ Len(attempted) = Len(results)
             /\ Len(results) < Len(projectKeys)
             /\ \A i \in DOMAIN results : results[i].Success)

C10_Witness ==
    /\ epc = "done"
    /\ eret = Canceled
    /\ projectKeys = <<"a", "b", "ab">>
    /\ Len(results) = 1
    /\ attempted = <<"a">>

-----------------------------------------------------------------------------
(* Claims about the draining of the process's output, checked under
   SpecPipe *)

\* the bytes data as text lines: every line of it, without the carriage
\* return before a newline, each ended by a newline
RECURSIVE AsLines(_, _)
AsLines(data, line) ==
    IF data = <<>> THEN (IF line = <<>> THEN <<>> ELSE DropCR(line) \o <<"LF">>)
    ELSE IF Head(data) = "LF" THEN DropCR(line) \o <<"LF">> \o AsLines(Tail(data), <<>>)
    ELSE AsLines(Tail(data), Append(line, Head(data)))

\* the builder b holds every line of the bytes data
HoldsAll(b, data) == b = AsLines(data, <<>>)

\* C8: whatever the process writes to stdout and stderr, in any
\* interleaving and with lines of any length, ExecuteScript never
\* deadlocks: as long as it has not returned some step is possible, and
\* the result it returns holds every line the process wrote.
C8_DrainsToEndOfFile ==
    /\ ppc = "draining" => ENABLED NextPipe
    /\ ppc = "returned" =>
          /\ HoldsAll(presult.Output, written["stdout"])
          /\ written["stderr"] # <<>> => HoldsAll(presult.Error, written["stderr"])

-----------------------------------------------------------------------------
(* The run command: selection and order *)

\* the keys a run selected, once the selection is made
Selected == Range(projectKeys)

\* C11: however the targets of a run are selected (--all, --project,
\* --namespace, --tag), and the declared dependencies being resolvable
\* (all present, no cycle), a selected project is handed to the executor
\* only after every selected project it declares as a dependency
C11_SelectedDependencyRunsFirst ==
    (mode = "run" /\ AllDepsExist /\ ~Cyclic) =>
        \A i \in DOMAIN attempted :
            \A dep \in DepsOf(attempted[i]) \cap Selected :
                dep \in Range(SubSeq(attempted, 1, i - 1))

\* the level of a project: 0 without dependencies, else one more than the
\* highest level among its dependencies (n bounds the recursion)
RECURSIVE LevelWithin(_, _)
LevelWithin(k, n) ==
    IF n = 0 \/ DepsOf(k) = {} THEN 0
    ELSE LET below == {LevelWithin(d, n - 1) : d \in DepsOf(k)}
         IN  1 + CHOOSE l \in below : \A m \in below : m <= l

Level(k) == LevelWithin(k, Cardinality(Keys))

\* C12: with --parallel (here on an --all run over resolvable
\* dependencies), execution is level by level: no project is started
\* before every selected project of a lower level has run
C12_LevelByLevel ==
    (mode = "run" /\ selection.parallel /\ selection.all
        /\ AllDepsExist /\ ~Cyclic) =>
        \A i \in DOMAIN attempted :
            \A k \in Selected :
                Level(k) < Level(attempted[i]) =>
                    k \in Range(SubSeq(attempted, 1, i - 1))

-----------------------------------------------------------------------------
(* The environment of the process *)

\* the value of name among the inherited entries
Inherited(name) == Getenv([i \in DOMAIN osEnviron |-> <<i, osEnviron[i]>>], name)

\* C13: for every variable name the process sees the project's value if
\* the project declares the name, else the script's value if the script
\* declares it, else what the inherited environment holds
C13_ProjectOverScriptOverInherited ==
    envpc = "started" =>
        \A name \in EnvNames :
            Getenv(childEnv, name) =
                IF name \in DOMAIN projectEnv
                THEN [set |-> TRUE, value |-> projectEnv[name]]
                ELSE IF name \in DOMAIN scriptEnv
                THEN [set |-> TRUE, value |-> scriptEnv[name]]
                ELSE Inherited(name)

\* all three layers give one name three different values, and the process
\* has been started
C13_Witness ==
    /\ envpc = "started"
    /\ childEnv # <<>>
    /\ \E name \in DOMAIN projectEnv \cap DOMAIN scriptEnv :
         /\ Inherited(name).set
         /\ projectEnv[name] # scriptEnv[name]
         /\ scriptEnv[name] # Inherited(name).value
         /\ projectEnv[name] # Inherited(name).value

-----------------------------------------------------------------------------
(* The sync writer *)

\* the union of what was declared before and what was discovered, sorted
\* ascending, each once
ExpectedDeps(name) ==
    SortedTexts(Range(Declared(name, original[name].lines).deps) \cup Range(discovered))

\* C14: after a call that succeeded, every manifest that was there with a
\* valid dependency list (block, inline, with comments or blank lines)
\* declares exactly the union of its former list and the discovered
\* dependencies, sorted ascending and without duplicates
C14_WrittenListIsSortedUnion ==
    (syncRuns = 1 /\ syncErr = NoError) =>
        \A name \in FileNames :
            (original[name].exists /\ Declared(name, original[name].lines).ok) =>
                Declared(name, files[name].lines) =
                    [ok |-> TRUE, deps |-> ExpectedDeps(name)]

\* C15: a second call with the same discovered dependencies leaves every
\* file as the first call left it
C15_SecondCallChangesNothing ==
    syncRuns = 2 => files = afterFirst

\* the files whose update fails in a call on the original directory
FailingUpdates ==
    {name \in FileNames :
        /\ original[name].exists
        /\ \/ ~original[name].writable
           \/ /\ name = "project.json"
              /\ ~UpdateProjectJson(original[name].lines, discovered).ok}

\* the lines a successful update of the original file writes
UpdatedLines(name) ==
    IF name = "app.yaml" THEN UpdateAppYaml(original[name].lines, discovered)
    ELSE UpdateProjectJson(original[name].lines, discovered).lines

\* C16: a call on a directory with neither manifest returns an error and
\* writes nothing; on a directory with both, every update that fails is
\* reported, the other file is still updated, and what was written to it
\* stays written
C16_ErrorsReportedWritesKept ==
    syncRuns = 1 =>
        /\ (\A name \in FileNames : ~original[name].exists) =>
              (syncErr = NoManifestFound /\ files = original)
        /\ (\A name \in FileNames : original[name].exists) =>
              /\ FailingUpdates # {} =>
                    (syncErr.kind = "sync errors"
                        /\ Range(syncErr.failed) = FailingUpdates)
              /\ FailingUpdates = {} => syncErr = NoError
              /\ \A name \in FileNames :
                    files[name].lines =
                        IF name \in FailingUpdates THEN original[name].lines
                        ELSE UpdatedLines(name)

\* both manifests are there, app.yaml could not be written, and
\* project.json has been rewritten
C16_Witness ==
    /\ syncRuns = 1
    /\ \A name \in FileNames : original[name].exists
    /\ syncErr = SyncErrors(<<"app.yaml">>)
    /\ files["project.json"].lines # original["project.json"].lines
    /\ files["app.yaml"] = original["app.yaml"]

-----------------------------------------------------------------------------
(* The scanner registry *)

\* the positions of the registered scanners that accept a path
Accepting(projectPath) == {i \in DOMAIN scanners : projectPath \in scanners[i].canScan}

\* the scanner registered first among those that accept a path
Earliest(projectPath) ==
    scanners[CHOOSE i \in Accepting(projectPath) : \A j \in Accepting(projectPath) : i <= j]

\* C17: FindScanner returns the earliest registered scanner that accepts
\* the path, and an error exactly when no registered scanner accepts it
C17_FirstRegisteredWins ==
    found # NoCall =>
        /\ found.err # NoError <=> Accepting(found.path) = {}
        /\ found.err = NoError => found.scanner = Earliest(found.path)

\* two different scanners accept the path and the one registered first
\* was returned
C17_Witness ==
    /\ found # NoCall
    /\ Cardinality(Accepting(found.path)) = 2
    /\ scanners[1] # scanners[2]
    /\ found.scanner = scanners[1]

\* the paths of a call that some registered scanner accepts
Claimed == {p \in Range(scanned.paths) : Accepting(p) # {}}

\* C18: a path no scanner accepts is skipped; if the scanner matched for a
\* path fails the call returns an error and no graph; otherwise the graph
\* holds one entry for exactly each accepted path
C18_SkipUnclaimedFailWhole ==
    scanned # NoCall =>
        IF \E p \in Claimed : p \in Earliest(p).fails
        THEN scanned.err # NoError /\ scanned.graph = "nil"
        ELSE /\ scanned.err = NoError
             /\ DOMAIN scanned.graph = Claimed
             /\ \A p \in Claimed :
                   scanned.graph[p] = ScanProject(Earliest(p), p).deps

\* a call whose first path was scanned and whose second path failed
C18_Witness ==
    /\ scanned # NoCall
    /\ Len(scanned.paths) = 2
    /\ scanned.paths[1] \in Claimed
    /\ scanned.paths[1] \notin Earliest(scanned.paths[1]).fails
    /\ scanned.paths[2] \in Claimed
    /\ scanned.paths[2] \in Earliest(scanned.paths[2]).fails
    /\ scanned.err = ScanFailed(scanned.paths[2])

\* C19: in what ScanProject returns, a requirement whose go.mod entry carries
\* the indirect marker comment has IsDirect false, and one without it has
\* IsDirect true.
C19_MarkerDecidesIsDirect ==
    scanDeps # NoCall =>
        \A i \in DOMAIN requires :
            /\ i \in DOMAIN scanDeps.deps
            /\ scanDeps.deps[i].Target = requires[i].target
            /\ scanDeps.deps[i].IsDirect = (requires[i].marker = <<>>)

\* the import path is the identifier or lies below it
IsUnder(importPath, identifier) ==
    importPath = identifier \/ HasPrefix(importPath, identifier \o <<"/">>)

\* the declared identifier an import belongs to: the longest one it is under
Attributed(importPath, declared) ==
    {t \in declared :
        /\ IsUnder(importPath, t)
        /\ \A u \in declared : IsUnder(importPath, u) => Len(u) <= Len(t)}

\* C20: after AnalyzeProjectDependencies, the ImportPaths of every declared
\* dependency are exactly the observed imports that are the dependency's
\* identifier or a sub-path of it, each import going to the longest declared
\* identifier it lies under.
C20_ImportPathsAreImportsBelow ==
    analysis # NoCall =>
        LET declared == {analysis.deps[i].Target : i \in DOMAIN analysis.deps}
        IN  \A i \in DOMAIN analysis.deps :
                Range(analysis.deps[i].ImportPaths) =
                    {imp \in sourceImports :
                        analysis.deps[i].Target \in Attributed(imp, declared)}

\* C21: after a scan, two projects discovered in different directories
\* never have the same key, so no record of the project map is overwritten by
\* another project's.
C21_KeysAreInjective ==
    scanOut # NoCall =>
        \A i, j \in DOMAIN scanOut.stored :
            scanOut.stored[i].dir # scanOut.stored[j].dir
                => scanOut.stored[i].key # scanOut.stored[j].key

\* C23: when a scanned manifest lists a dependency written namespace/name and
\* a project with that namespace and name was discovered, the resolver does
\* not fail with a missing-dependency error for it.
C23_NamespaceSlashNameResolves ==
    resolveOut # NoCall =>
        \A k, target \in DOMAIN scanOut.projects :
            \A n \in DOMAIN scanOut.projects[k].Config.Dependencies :
                scanOut.projects[k].Config.Dependencies[n]
                        = NamespaceSlashName(scanOut.projects[target].Config)
                    => ~(/\ resolveOut.err.kind = "missing"
                         /\ resolveOut.err.dep
                                = scanOut.projects[k].Config.Dependencies[n])

\* C22: "run" with a namespace and tags (and neither --all nor --project)
\* targets exactly the projects of that namespace that carry every tag given.
C22_NamespaceAndTagsCombine ==
    (/\ mode = "run"
     /\ epc # "start"
     /\ scriptName \in scripts
     /\ ~selection.all
     /\ Len(selection.project) = 0
     /\ selection.namespace # ""
     /\ Len(selection.tag) > 0)
        => Range(projectKeys)
               = FilterProjects(projects, [Namespace |-> selection.namespace,
                                           Tags |-> selection.tag])

\* C24: after "config format --set F" the loaded manifest has
\* projectConfigFormat = F, and setting the same F once more leaves the file
\* as it was.
C24_FormatRoundTrips ==
    Len(setFormats) > 0 =>
        /\ LoadedFormat(duckYaml) = setFormats[Len(setFormats)]
        /\ (Len(setFormats) > 1
                /\ setFormats[Len(setFormats) - 1] = setFormats[Len(setFormats)])
              => duckYaml = beforeSet

\* C25: the text replaceVariables returns is the same in whichever order the
\* four placeholders are replaced, also when a value holds a placeholder.
C25_SubstitutionOrderIndependent ==
    replPending = {} =>
        \A order \in MapOrders(Placeholders) :
            ReplaceInOrder(replCommand, replacements, order) = replResult

\* C26: the result of a script whose process was started has Success true
\* exactly when the exit status is zero and, when it failed, carries the
\* stderr text if there is any and else the error of cmd.Wait; a pipe that
\* cannot be made or a process that cannot be started gives a result with
\* Success false and an error text, and no error is returned.
C26_SuccessIsZeroExit ==
    xpc = "returned" =>
        /\ shellProc # "none" =>
              /\ xerr = NoError
              /\ xresult.Success <=> shellStatus = "ok"
              /\ ~xresult.Success =>
                    xresult.Error = IF errorBuilder # "" THEN errorBuilder
                                    ELSE ExitError(shellStatus)
        /\ (shellProc = "none" /\ xerr = NoError /\ xresult.Error # DisabledError) =>
              /\ ~xresult.Success
              /\ xresult.Error \in {StdoutPipeError, StderrPipeError, StartError}

C26_Witness ==
    /\ xpc = "returned"
    /\ shellStatus = "failed"
    /\ errorBuilder = ""
    /\ xresult.Error = ExitError("failed")

\* C30: when the process ended with status zero the result has Success true
\* and its error text is what was captured from stderr.
C30_ErrorTextOfSuccessIsStderr ==
    (xpc = "returned" /\ shellStatus = "ok") =>
        /\ xresult.Success
        /\ xresult.Error = errorBuilder

C30_Witness ==
    /\ xpc = "returned"
    /\ shellStatus = "ok"
    /\ errorBuilder # ""
    /\ xresult.Success

\* what is left running of the command
C27_Terminated ==
    /\ xpc = "returned"
    /\ ~StillRunning
    /\ shellStatus = "killed" => ~xresult.Success

\* C27: when ctx is cancelled while the process runs, the command (sh and
\* what it started) is ended and ExecuteScript returns, with an
\* unsuccessful result for the killed process and without waiting for the
\* pipes.  A sh that ends by itself in the moment of the cancellation is
\* not held against the code.
C27_CancelEndsTheCommand ==
    (xctxDone /\ shellProc = "running") ~> C27_Terminated

\* C28: the outcome of ResolveExecutionOrder is fixed by the project map,
\* the error included: whichever order the range over the map takes, the
\* call returns what this call returned, the same project and the same
\* missing dependency in the error.
C28_OutcomeIsFunctionOfInput ==
    rpc = "done" =>
        \A order \in MapOrders(DOMAIN projects) :
            ResolveExecutionOrder(projects, order) = rret

\* the list without the later copies of an entry
Distinct(list) ==
    SelectSeq([i \in DOMAIN list |-> <<i, list[i]>>],
              LAMBDA e : \A j \in 1..(e[1] - 1) : list[j] # e[2])

\* the project map with every dependency list de-duplicated
Deduplicated(p) ==
    [k \in DOMAIN p |->
        [p[k] EXCEPT !.Dependencies =
            [i \in DOMAIN Distinct(@) |-> Distinct(@)[i][2]]]]

\* C29: listing a dependency more than once changes nothing: the call
\* returns the ExecutionOrder, or the kind of error, that it returns for
\* the map with every dependency list de-duplicated.
C29_DuplicatesChangeNothing ==
    rpc = "done" =>
        \A order \in MapOrders(DOMAIN projects) :
            LET plain == ResolveExecutionOrder(Deduplicated(projects), order)
            IN  /\ plain.err.kind = rret.err.kind
                /\ rret.err.kind = "none" =>
                      plain.result.ExecutionOrder = rret.result.ExecutionOrder

\* a project that lists an existing dependency twice has been emitted,
\* after that dependency
C29_Witness ==
    /\ rpc = "done"
    /\ rret.err.kind = "none"
    /\ \E k \in DOMAIN projects :
          /\ Len(projects[k].Dependencies) = 2
          /\ projects[k].Dependencies[1] = projects[k].Dependencies[2]
          /\ projects[k].Dependencies[1] # k
          /\ \E i, j \in DOMAIN executionOrder :
                /\ i < j
                /\ executionOrder[i] = projects[k].Dependencies[1]
                /\ executionOrder[j] = k

=============================================================================
